---- MODULE Spec2Model ----
(***************************************************************************)
(* ShadowLink: model of the synchronisation and reconciliation engine.     *)
(*                                                                         *)
(* The module holds several specifications over one set of variables, one  *)
(* per component of the program:                                           *)
(*   SpecQueue    the client's offline operation queue, its replay passes, *)
(*                the file event handlers, the periodic re-diff and the    *)
(*                shared `paths` list  (src/main.ts)                       *)
(*   SpecResolve  ConflictResolver: strategies, merge heuristic, backups   *)
(*                (src/main.ts)                                            *)
(*   SpecOpen     handleFileOpenInternal: how the editor, the replicated   *)
(*                text and documentVersions are initialised on open        *)
(*   SpecSwitch   switching between documents: the document sessions of    *)
(*                one client and the awareness sets the relay keeps        *)
(*   SpecRelay    the relay server: two clients on one document, the      *)
(*                rate-limited conn.send  (src/server/server.js)           *)
(*   SpecMerge    ConflictResolver.threeWayMerge as a function of two      *)
(*                texts                                                    *)
(*   SpecRequests the file-open requests of one client: debounce, the      *)
(*                fileOpenQueue, and the calls of handleFileOpenInternal   *)
(*                made by reconnect and joinVault                          *)
(*   SpecReconcile  reconciliation of the vault with the shared `paths`    *)
(*                list: syncLocalWithMetadata, the observer of the list,   *)
(*                performPeriodicSyncCheck, with their await points;       *)
(*                SpecReconcileFair adds the fairness of timers and awaits *)
(*   SpecSupervisor  connection supervision: statusHandler, the retry      *)
(*                timer of scheduleReconnect, reconnect, the sync timers   *)
(* Each specification leaves the variables of the other components alone.  *)
(***************************************************************************)
EXTENDS Integers, Sequences, FiniteSets, TLC

VARIABLES
    \* ---- client: vault, shared metadata, plugin and OfflineOperationManager
    now,              \* Date.now(), in ms
    files,            \* app.vault: the paths of the local files
    paths,            \* metadataDoc.getArray('paths'), the shared list
    isOnline,         \* ShadowLinkPlugin.isOnline
    connectionStatus, \* ShadowLinkPlugin.connectionStatus
    lastSyncTimestamps, \* ShadowLinkPlugin.lastSyncTimestamps, 0 = no entry
    syncTimer,        \* the 1 s setTimeout armed by statusHandler is pending
    mgrOnline,        \* OfflineOperationManager.isOnline
    operationQueue,   \* OfflineOperationManager.operationQueue
    passes,           \* the processQueue() invocations suspended at an await
    localStorage,     \* localStorage[queueKey]: the serialised queue
    nextId,           \* the number of ids handed out (randomUUID is unique)
    restored,         \* history: ids the current manager loaded from the store
    offlineDeleted,   \* history: paths the user deleted while offline
    userEvents        \* history: the number of file events the user has caused

qvars == <<now, files, paths, isOnline, connectionStatus, lastSyncTimestamps,
           syncTimer, mgrOnline, operationQueue, passes, localStorage, nextId,
           restored, offlineDeleted, userEvents>>

VARIABLES
    \* ---- client: ConflictResolver and the file it works on
    policy,           \* settings.conflictResolution
    rPhase,           \* position of the resolveConflict call
    conflict,         \* the ConflictInfo passed to resolveConflict
    canon,            \* content of the file at conflict.filePath, or NoFile
    backups,          \* the backup files created: their kind and content
    result,           \* what the promise of resolveConflict resolved to
    notice,           \* the Notice shown by the resolver
    threw,            \* history: the selected strategy threw
    ranBackup         \* history: handleUnresolvableConflict was entered

rvars == <<policy, rPhase, conflict, canon, backups, result, notice, threw,
           ranBackup>>

VARIABLES
    \* ---- client: the document session opened by handleFileOpenInternal
    oPhase,           \* "closed", "opened" (provider created) or "synced"
    handlers,         \* the callbacks of this open that have not run yet
    ytext,            \* doc.getText('content') of the session
    remoteDoc,        \* the content of the document at the relay
    idbDoc,           \* the content IndexeddbPersistence holds for the document
    documentVersions, \* documentVersions.get(file.path), or NoVersion
    editor,           \* view.editor.getValue()
    routed,           \* history: this open called resolveConflict
    opens             \* history: the number of opens so far

ovars == <<oPhase, handlers, ytext, remoteDoc, idbDoc, documentVersions, editor,
           routed, opens>>

VARIABLES
    \* ---- switching documents: one client's sessions, the relay's awareness
    currentFile,      \* ShadowLinkPlugin.currentFile, or NoDoc
    provider,         \* the session of ShadowLinkPlugin.provider, 0 = null
    sessions,         \* every document session this client has created
    awarenessSets,    \* relay: per document, the sessions with a record
    pendingFile,      \* the file handleFileOpenInternal is opening, or NoDoc
    switchedFrom      \* history: the session the last completed open replaced

svars == <<currentFile, provider, sessions, awarenessSets, pendingFile,
           switchedFrom>>

VARIABLES
    \* ---- relay server and two clients on one document
    serverNow,        \* Date.now() at the server, in ms
    connected,        \* the clients with an open connection
    connectionRateLimits, \* VaultManager.connectionRateLimits, per connection
    clientDoc,        \* per client, the edits its Y.Doc holds
    serverDoc,        \* the edits the relay's copy of the document holds
    toServer,         \* updates in flight to the relay: <<client, edit>>
    toClient,         \* updates in flight to a client: <<client, edit>>
    joins             \* history: per client, the connections made so far

nvars == <<serverNow, connected, connectionRateLimits, clientDoc, serverDoc,
           toServer, toClient, joins>>

VARIABLES
    \* ---- threeWayMerge applied to two texts
    mLocal,           \* the argument `local`
    mRemote,          \* the argument `remote`
    mResult,          \* what the call returned
    mPhase            \* "input" before the call, "merged" after it

mvars == <<mLocal, mRemote, mResult, mPhase>>

VARIABLES
    \* ---- file-open requests of one client
    debounceTimeout,  \* the file of the pending debounce timer, or NoTimer
    currentFileOpenRequest, \* ShadowLinkPlugin.currentFileOpenRequest
    fileOpenQueue,    \* the tasks chained on fileOpenQueue, not yet started
    invocations,      \* the calls of handleFileOpenInternal made so far
    activeFile,       \* app.workspace.getActiveFile()
    joinVaultPhase,   \* "none", "connecting" (at await connectMetadata), "done"
    reconnectPhase,   \* the same for reconnect()
    fileOpenEvents,   \* history: the number of 'file-open' events
    lateAttach        \* history: a superseded call went on to attach

fvars == <<debounceTimeout, currentFileOpenRequest, fileOpenQueue, invocations,
           activeFile, joinVaultPhase, reconnectPhase, fileOpenEvents,
           lateAttach>>

VARIABLES
    \* ---- reconciliation of the vault with the shared list (client online)
    reconPasses,      \* the reconciliation passes suspended at an await
    observers,        \* the observers registered on the shared list
    lastDone,         \* history: the pass that returned at the last step
    quietSince,       \* history: kind of the last pass, nothing changed since
    tickedSince,      \* history: the clock advanced since a pass last started
    unmirrored,       \* history: removals seen, file not deleted since
    pulled,           \* history: the <<path, content>> given to vault.create
    lostEvents,       \* history: remote changes no observer was called for
    syncRuns,         \* history: runs of syncLocalWithMetadata started
    remoteOps,        \* history: changes made by the remote client
    localOps          \* history: changes made by the local user

cvars == <<reconPasses, observers, lastDone, quietSince, tickedSince,
           unmirrored, pulled, lostEvents, syncRuns, remoteOps, localOps>>

VARIABLES
    \* ---- connection supervision
    connectionRetries, \* this.connectionRetries
    retryTimeout,      \* the delay of the pending retry timer, 0: none pending
    statusText,        \* the text of the status bar item
    immediateSyncTimer, \* the 2 s timer of scheduleImmediateSync is pending
    wsState,           \* the websocket of each provider
    published,         \* history: providers given the awareness record last
    owedPass,          \* history: connected since the last reconciliation pass
    gaveUp,            \* history: scheduleReconnect found the retries used up
    scheduledSince     \* history: retry timers armed since the last 'connected'

uvars == <<connectionRetries, retryTimeout, statusText, immediateSyncTimer,
           wsState, published, owedPass, gaveUp, scheduledSince>>

\* the variables of the components that follow the reconciliation
VARIABLES
    rateLimitMaps, limiterNow, lastCall, streak,
    limiterCalls, limiterTicks, testLimit

lvars == <<rateLimitMaps, limiterNow, lastCall, streak,
           limiterCalls, limiterTicks, testLimit>>

VARIABLES
    registryNow, registrySessions, registryVaults, connectionCount,
    sessionRateLimits, ipRateLimits, connState, attempts, lastAttempt,
    lastSweep, registryTicks, messages, established

gvars == <<registryNow, registrySessions, registryVaults, connectionCount,
           sessionRateLimits, ipRateLimits, connState, attempts, lastAttempt,
           lastSweep, registryTicks, messages, established>>

VARIABLES
    editorValue, seedText, relayText, seedSynced, seedWire, seededOver

dvars == <<editorValue, seedText, relayText, seedSynced, seedWire, seededOver>>

VARIABLES
    \* ---- folders
    folderVault,     \* the folders of the local vault
    foldersArray,    \* metadataDoc.getArray('folders')
    folderStamps,    \* lastSyncTimestamps, keys createFolder:<path>, deleteFolder:<path>
    folderNow,       \* Date.now()
    folderOnline,    \* this.isOnline
    lastFolderEvent  \* history: the last folder event and its number

yvars == <<folderVault, foldersArray, folderStamps, folderNow, folderOnline,
           lastFolderEvent>>

VARIABLES
    plugin           \* the fields of the ShadowLinkPlugin object that onunload releases

pvars == <<plugin>>

VARIABLES
    shared           \* two clients' replicas of the `paths` list and their vaults

hvars == <<shared>>

lastVars == <<yvars, pvars, hvars>>

newerVars == <<uvars, lvars, gvars, dvars, lastVars>>

\* the variables of the components that follow the relay
laterVars == <<mvars, fvars, cvars, newerVars>>

vars == <<qvars, rvars, ovars, svars, nvars, laterVars>>

\* the variables outside the queue component, outside the resolver, outside
\* both the document open and the resolver, and so on
nonQueueVars == <<rvars, ovars, svars, nvars, laterVars>>
nonResolverVars == <<qvars, ovars, svars, nvars, laterVars>>
nonOpenVars == <<qvars, svars, nvars, laterVars>>
nonSwitchVars == <<qvars, rvars, ovars, nvars, laterVars>>
nonRelayVars == <<qvars, rvars, ovars, svars, laterVars>>
earlierVars == <<qvars, rvars, ovars, svars, nvars>>
nonMergeVars == <<earlierVars, fvars, cvars, newerVars>>
nonRequestsVars == <<qvars, rvars, ovars, nvars, mvars, cvars, newerVars,
                     awarenessSets, pendingFile, switchedFrom>>
nonSupervisorVars == <<rvars, ovars, svars, nvars, mvars, fvars, cvars, lvars, gvars, dvars,
                       lastVars, now,
                       userEvents>>
nonLimiterVars == <<earlierVars, mvars, fvars, cvars, uvars, gvars, dvars, lastVars>>
nonRegistryVars == <<earlierVars, mvars, fvars, cvars, uvars, lvars, dvars, lastVars>>
nonSeedVars == <<earlierVars, mvars, fvars, cvars, uvars, lvars, gvars, lastVars>>
nonFolderVars == <<earlierVars, mvars, fvars, cvars, uvars, lvars, gvars, dvars, pvars, hvars>>
nonPluginVars == <<earlierVars, mvars, fvars, cvars, uvars, lvars, gvars, dvars, yvars, hvars>>
nonSharedVars == <<earlierVars, mvars, fvars, cvars, uvars, lvars, gvars, dvars, yvars, pvars>>
nonReconcileVars == <<rvars, ovars, svars, nvars, mvars, fvars, newerVars, isOnline,
                      connectionStatus, syncTimer, mgrOnline, operationQueue,
                      passes, localStorage, nextId, restored, offlineDeleted,
                      userEvents>>

\* ---- values standing for "nothing"
NoFile == <<"no file">>          \* getAbstractFileByPath gives no TFile
NoConflict ==
    [type |-> "none", localVersion |-> <<>>, remoteVersion |-> <<>>,
     localTimestamp |-> 0, remoteTimestamp |-> 0, isResolvable |-> TRUE]

NoVersion == <<"no version">>    \* documentVersions has no entry

\* no document session
OpenIdle ==
    /\ oPhase = "closed"
    /\ handlers = {}
    /\ ytext = <<>>
    /\ remoteDoc = <<>>
    /\ idbDoc = <<>>
    /\ documentVersions = NoVersion
    /\ editor = <<>>
    /\ routed = FALSE
    /\ opens = 0

\* no document was opened yet
NoDoc == "no document"
Docs == {"A.md", "B.md"}
SwitchIdle ==
    /\ currentFile = NoDoc
    /\ provider = 0
    /\ sessions = <<>>
    /\ awarenessSets = [d \in Docs |-> {}]
    /\ pendingFile = NoDoc
    /\ switchedFrom = 0

\* the relay without connections
Clients == {1, 2}
NoRecord == [present |-> FALSE, count |-> 0, resetTime |-> 0]
RelayIdle ==
    /\ serverNow = 0
    /\ connected = {}
    /\ connectionRateLimits = [c \in Clients |-> NoRecord]
    /\ clientDoc = [c \in Clients |-> {}]
    /\ serverDoc = {}
    /\ toServer = {}
    /\ toClient = {}
    /\ joins = [c \in Clients |-> 0]

\* threeWayMerge not called
MergeIdle ==
    /\ mLocal = <<>>
    /\ mRemote = <<>>
    /\ mResult = [null |-> TRUE, text |-> <<>>]
    /\ mPhase = "input"

\* no file-open request yet
NoTimer == "no timer"
RequestsIdle ==
    /\ debounceTimeout = NoTimer
    /\ currentFileOpenRequest = "none"
    /\ fileOpenQueue = <<>>
    /\ invocations = <<>>
    /\ activeFile = NoDoc
    /\ joinVaultPhase = "none"
    /\ reconnectPhase = "none"
    /\ fileOpenEvents = 0
    /\ lateAttach = FALSE

\* no reconciliation yet
NoPass == [kind |-> "none", local |-> {}, remote |-> {}, todo |-> <<>>,
           ops |-> 0, failed |-> FALSE, disturbed |-> FALSE, second |-> FALSE,
           afterTick |-> FALSE, conflicts |-> {}]
ReconcileIdle ==
    /\ reconPasses = <<>>
    /\ observers = 0
    /\ lastDone = NoPass
    /\ quietSince = "none"
    /\ tickedSince = FALSE
    /\ unmirrored = {}
    /\ pulled = {}
    /\ lostEvents = 0
    /\ syncRuns = 0
    /\ remoteOps = 0
    /\ localOps = 0

\* the providers of a client: of the metadata document, of the open document
Providers == {"metadata", "document"}

\* no connection yet
SupervisorIdle ==
    /\ connectionRetries = 0
    /\ retryTimeout = 0
    /\ statusText = "connecting"
    /\ immediateSyncTimer = FALSE
    /\ wsState = [p \in Providers |-> "none"]
    /\ published = {}
    /\ owedPass = FALSE
    /\ gaveUp = FALSE
    /\ scheduledSince = 0

\* the components that follow the reconciliation, at rest
LimiterIds == {"x", "y"}
RateMaps == {"ip", "connection"}
NoRate == [present |-> FALSE, count |-> 0, resetTime |-> 0, violations |-> 0]
NoStreak == [type |-> "none", n |-> 0, until |-> 0, retry |-> 0, at |-> 0,
             violated |-> FALSE]
NoCall == [id |-> "x", type |-> "none", allowed |-> TRUE, retryAfter |-> 0,
           nth |-> 0, prevRetry |-> 0, windowMs |-> 0, maxRequests |-> 0]
LimiterIdle ==
    /\ rateLimitMaps = [m \in RateMaps |-> [i \in LimiterIds |-> NoRate]]
    /\ limiterNow = 0
    /\ lastCall = NoCall
    /\ streak = [m \in RateMaps |-> [i \in LimiterIds |-> NoStreak]]
    /\ limiterCalls = 0
    /\ limiterTicks = 0
    /\ testLimit = [maxRequests |-> 0, windowMs |-> 0]
MaxConns == 2
ConnSeq == <<"c1", "c2">>
ConnIds == {ConnSeq[i] : i \in 1..MaxConns}
Ips == {"10.0.0.1", "10.0.0.2"}
NullParam == [given |-> FALSE, text |-> <<>>]
NoSession == [present |-> FALSE, vaultId |-> NullParam, userId |-> NullParam,
              lastActivity |-> 0, ipAddress |-> "none"]
NoAttempt == [sent |-> [ip |-> "none", missing |-> FALSE, malformed |-> FALSE],
              outcome |-> "none", code |-> 0, connectionId |-> "none"]
RegistryIdle ==
    /\ registryNow = 0
    /\ registrySessions = [c \in ConnIds |-> NoSession]
    /\ registryVaults = {}
    /\ connectionCount = [ip \in Ips |-> 0]
    /\ sessionRateLimits = [k \in ConnIds \cup Ips |-> NoRate]
    /\ ipRateLimits = [ip \in Ips |-> NoRate]
    /\ connState = [c \in ConnIds |-> "none"]
    /\ attempts = 0
    /\ lastAttempt = NoAttempt
    /\ lastSweep = {}
    /\ registryTicks = 0
    /\ messages = 0
    /\ established = [ip \in Ips |-> 0]
EmptyText == [items |-> {}, deleted |-> {}]
SeedIdle ==
    /\ editorValue = [c \in {1, 2} |-> <<>>]
    /\ seedText = [c \in {1, 2} |-> EmptyText]
    /\ relayText = EmptyText
    /\ seedSynced = {}
    /\ seedWire = {}
    /\ seededOver = {}
Folders == {"docs", "notes"}
FolderKinds == {"createFolder", "deleteFolder"}
NoFolderEvent == [kind |-> "none", path |-> "none", n |-> 0, ticks |-> 0]
FolderIdle ==
    /\ folderVault = {}
    /\ foldersArray = <<>>
    /\ folderStamps = [k \in FolderKinds |-> [f \in Folders |-> 0]]
    /\ folderNow = 0
    /\ folderOnline = FALSE
    /\ lastFolderEvent = NoFolderEvent
\* the plugin object before onload
NoPlugin == [isCleaningUp |-> FALSE, isOnline |-> FALSE,
             provider |-> FALSE, idb |-> FALSE, doc |-> FALSE,
             metadataProvider |-> FALSE, metadataDoc |-> FALSE,
             debounceTimeout |-> FALSE, retryTimeout |-> FALSE,
             listeners |-> {}, timers |-> {}, opening |-> FALSE,
             currentFile |-> "none", request |-> "none",
             metadataAwareness |-> "unset",
             unloaded |-> FALSE, firedAfter |-> {}]
PluginIdle == plugin = NoPlugin
NoShared == [items |-> [c \in {1, 2} |-> {}], gone |-> [c \in {1, 2} |-> {}],
             files |-> [c \in {1, 2} |-> {}], n |-> 0,
             lastDelete |-> [client |-> 0, path |-> "none", n |-> 0]]
SharedIdle == shared = NoShared
LastIdle == FolderIdle /\ PluginIdle /\ SharedIdle
NewerIdle == SupervisorIdle /\ LimiterIdle /\ RegistryIdle /\ SeedIdle /\ LastIdle

\* the components that follow the relay, at rest
LaterIdle == MergeIdle /\ RequestsIdle /\ ReconcileIdle /\ NewerIdle

\* the resolver after construction, no call in progress
ResolverIdle ==
    /\ rPhase = "idle"
    /\ conflict = NoConflict
    /\ canon = NoFile
    /\ backups = {}
    /\ result = "none"
    /\ notice = "none"
    /\ threw = FALSE
    /\ ranBackup = FALSE

(***************************************************************************)
(* Bounds of the model.                                                    *)
(***************************************************************************)
MaxUserEvents == 2 \* file events the user causes in one behaviour
MaxOps == 2       \* operations enqueued in one behaviour
MaxPasses == 2    \* replay passes in flight at once
MaxTicks == 1     \* clock steps taken in one behaviour
ClockStepMs == 10001 \* the clock advances by this much at a step

Paths == {"a.md", "b.md"}
NoPath == "none"
PassIds == 1..MaxPasses

(***************************************************************************)
(* Program constants.                                                      *)
(***************************************************************************)
PeriodicGraceMs == 10000

(***************************************************************************)
(* Sequence helpers.                                                       *)
(***************************************************************************)
Range(s) == {s[i] : i \in DOMAIN s}

\* Array.prototype.indexOf, 1-based; 0 when absent
IndexOf(s, x) ==
    IF x \in Range(s) THEN CHOOSE i \in DOMAIN s : s[i] = x /\ \A j \in 1..(i-1) : s[j] # x
    ELSE 0

\* Y.Array.delete(idx, 1)
RemoveAt(s, i) == [j \in 1..(Len(s)-1) |-> IF j < i THEN s[j] ELSE s[j+1]]

RECURSIVE SetToSeq(_)
SetToSeq(S) ==
    IF S = {} THEN <<>>
    ELSE LET x == CHOOSE y \in S : TRUE IN <<x>> \o SetToSeq(S \ {x})

(***************************************************************************)
(* OfflineOperationManager: the queue and its persistence.                 *)
(***************************************************************************)
\* An OfflineOperation {id, type, timestamp, path, newPath}.
Op(id, type, ts, path, newPath) ==
    [id |-> id, type |-> type, timestamp |-> ts, path |-> path, newPath |-> newPath]

\* JSON.stringify(this.operationQueue): one tuple of field values per operation.
Stringify(queue) ==
    [i \in DOMAIN queue |->
        <<queue[i].id, queue[i].type, queue[i].timestamp, queue[i].path, queue[i].newPath>>]

\* JSON.parse(stored)
Parse(stored) ==
    [i \in DOMAIN stored |->
        Op(stored[i][1], stored[i][2], stored[i][3], stored[i][4], stored[i][5])]

\* Insert op behind every element whose timestamp is not larger (a stable sort).
RECURSIVE InsertByTimestamp(_, _)
InsertByTimestamp(s, op) ==
    IF s = <<>> THEN <<op>>
    ELSE IF s[Len(s)].timestamp <= op.timestamp THEN Append(s, op)
    ELSE Append(InsertByTimestamp(SubSeq(s, 1, Len(s) - 1), op), s[Len(s)])

RECURSIVE SortFrom(_, _)
SortFrom(done, rest) ==
    IF rest = <<>> THEN done
    ELSE SortFrom(InsertByTimestamp(done, rest[1]), Tail(rest))

\* A mutant of the sort: descending timestamps.
RECURSIVE SortDescending(_)
SortDescending(queue) ==
    IF queue = <<>> THEN <<>>
    ELSE LET m == CHOOSE i \in DOMAIN queue :
                    \A j \in DOMAIN queue : queue[j].timestamp <= queue[i].timestamp
         IN <<queue[m]>> \o SortDescending(RemoveAt(queue, m))

\* this.operationQueue.sort((a, b) => a.timestamp - b.timestamp): stable, ascending
SortByTimestamp(queue) == SortFrom(<<>>, queue)

(***************************************************************************)
(* The client state as one value, so that a handler can call another.      *)
(* `overflow` is set when a call would exceed a bound of the model; a step  *)
(* that would overflow is not taken.                                       *)
(***************************************************************************)
World ==
    [files |-> files, paths |-> paths, isOnline |-> isOnline,
     connectionStatus |-> connectionStatus, lastSync |-> lastSyncTimestamps,
     syncTimer |-> syncTimer, mgrOnline |-> mgrOnline, queue |-> operationQueue,
     passes |-> passes, store |-> localStorage, nextId |-> nextId,
     restored |-> restored, offlineDeleted |-> offlineDeleted, overflow |-> FALSE]

Commit(w) ==
    /\ ~w.overflow
    /\ files' = w.files
    /\ paths' = w.paths
    /\ isOnline' = w.isOnline
    /\ connectionStatus' = w.connectionStatus
    /\ lastSyncTimestamps' = w.lastSync
    /\ syncTimer' = w.syncTimer
    /\ mgrOnline' = w.mgrOnline
    /\ operationQueue' = w.queue
    /\ passes' = w.passes
    /\ localStorage' = w.store
    /\ nextId' = w.nextId
    /\ restored' = w.restored
    /\ offlineDeleted' = w.offlineDeleted
    /\ UNCHANGED nonQueueVars

\* A pass slot. `aliased`: the array the pass iterates is still the object
\* this.operationQueue; otherwise `arr` is the (now unreferenced) array.
\* `idx`: the position of the operation it is awaiting; `processed`: its ids.
\* `cleared` (history): clearQueue() was called while the pass was in flight.
IdlePass ==
    [active |-> FALSE, aliased |-> FALSE, arr |-> <<>>, idx |-> 0,
     processed |-> <<>>, cleared |-> FALSE]

NewPass ==
    [active |-> TRUE, aliased |-> TRUE, arr |-> <<>>, idx |-> 1,
     processed |-> <<>>, cleared |-> FALSE]

PassArr(w, i) == IF w.passes[i].aliased THEN w.queue ELSE w.passes[i].arr

\* saveQueue()
SaveQueue(w) == [w EXCEPT !.store = Stringify(w.queue)]

\* processQueue(), up to its first await: the early return and the sort
ProcessQueue(w) ==
    IF Len(w.queue) = 0 THEN w
    ELSE IF \A i \in PassIds : w.passes[i].active THEN [w EXCEPT !.overflow = TRUE]
    ELSE LET slot == CHOOSE i \in PassIds :
                        ~w.passes[i].active /\ \A j \in 1..(i-1) : w.passes[j].active
         IN [w EXCEPT !.queue = SortByTimestamp(@), !.passes[slot] = NewPass]

\* setOnlineStatus(online)
SetOnlineStatus(w, online) ==
    LET wasOffline == ~w.mgrOnline
        w1 == [w EXCEPT !.mgrOnline = online]
    IN IF online /\ wasOffline /\ Len(w1.queue) > 0 THEN ProcessQueue(w1) ELSE w1

\* addOperation(operation)
AddOperation(w, type, path, newPath) ==
    IF w.nextId >= MaxOps THEN [w EXCEPT !.overflow = TRUE]
    ELSE LET fullOperation == Op(w.nextId + 1, type, now, path, newPath)
             w1 == SaveQueue([w EXCEPT !.queue = Append(@, fullOperation),
                                       !.nextId = @ + 1])
         IN IF w1.mgrOnline THEN ProcessQueue(w1) ELSE w1

(***************************************************************************)
(* ShadowLinkPlugin: the vault event handlers.                             *)
(***************************************************************************)
Key(kind, path) == <<kind, path>>
Kinds == {"create", "delete", "rename"}

\* handleFileCreate(file)
HandleFileCreate(w, p) ==
    LET w1 == [w EXCEPT !.lastSync[Key("create", p)] = now]
    IN IF ~w1.isOnline
       THEN AddOperation(w1, "create", p, NoPath)
       ELSE IF p \in Range(w1.paths) THEN w1
            ELSE [w1 EXCEPT !.paths = Append(@, p)]

\* handleFileDelete(file)
HandleFileDelete(w, p) ==
    LET w1 == [w EXCEPT !.lastSync[Key("delete", p)] = now]
    IN IF ~w1.isOnline
       THEN AddOperation(w1, "delete", p, NoPath)
       ELSE LET idx == IndexOf(w1.paths, p)
            IN IF idx >= 1 THEN [w1 EXCEPT !.paths = RemoveAt(@, idx)] ELSE w1

\* handleFileRename(file, oldPath)
HandleFileRename(w, oldPath, newPath) ==
    LET w1 == [w EXCEPT !.lastSync[Key("rename", oldPath)] = now]
    IN IF ~w1.isOnline
       THEN AddOperation(w1, "rename", oldPath, newPath)
       ELSE LET list == w1.paths
                oldIdx == IndexOf(list, oldPath)
                w2 == IF oldIdx >= 1 THEN [w1 EXCEPT !.paths = RemoveAt(@, oldIdx)] ELSE w1
            IN IF newPath \in Range(list) THEN w2
               ELSE [w2 EXCEPT !.paths = Append(@, newPath)]

\* A mutant of the call: the event is raised, no file appears.
VaultCreateNoFile(w, p) == HandleFileCreate(w, p)

\* app.vault.create(path, ''), with the 'create' event it raises
VaultCreate(w, p) == HandleFileCreate([w EXCEPT !.files = @ \cup {p}], p)

\* app.vault.delete(file), with the 'delete' event it raises
VaultDelete(w, p) == HandleFileDelete([w EXCEPT !.files = @ \ {p}], p)

\* app.vault.rename(file, newPath), with the 'rename' event it raises
VaultRename(w, oldPath, newPath) ==
    HandleFileRename([w EXCEPT !.files = (@ \ {oldPath}) \cup {newPath}], oldPath, newPath)

(***************************************************************************)
(* OfflineOperationManager: replay.                                        *)
(***************************************************************************)
\* processOperation(operation) with processCreateOperation, processDelete-
\* Operation and processRenameOperation. `ok`: the vault call it makes does not
\* throw. The result is the state and whether the promise resolved to true
\* (false: it resolved to false, or rejected).
ProcessOperation(w, op, ok) ==
    CASE op.type = "create" ->
            IF op.path \in w.files THEN [w |-> w, success |-> TRUE]
            ELSE IF ok THEN [w |-> VaultCreate(w, op.path), success |-> TRUE]
            ELSE [w |-> w, success |-> FALSE]
      [] op.type = "delete" ->
            IF op.path \notin w.files THEN [w |-> w, success |-> TRUE]
            ELSE IF ok THEN [w |-> VaultDelete(w, op.path), success |-> TRUE]
            ELSE [w |-> w, success |-> FALSE]
      [] op.type = "rename" ->
            IF op.newPath = NoPath THEN [w |-> w, success |-> FALSE]
            ELSE IF op.path \notin w.files THEN [w |-> w, success |-> TRUE]
            ELSE IF ok /\ op.newPath \notin w.files
                 THEN [w |-> VaultRename(w, op.path, op.newPath), success |-> TRUE]
            ELSE [w |-> w, success |-> FALSE]
      [] OTHER -> [w |-> w, success |-> TRUE]

RECURSIVE WithoutIds(_, _)
WithoutIds(queue, ids) ==
    IF queue = <<>> THEN <<>>
    ELSE IF queue[1].id \in ids THEN WithoutIds(Tail(queue), ids)
    ELSE <<queue[1]>> \o WithoutIds(Tail(queue), ids)

\* this.operationQueue = <a new array>: a pass still iterating the old array
\* keeps it.
ReplaceQueue(w, newQueue) ==
    [w EXCEPT !.queue = newQueue,
              !.passes = [j \in PassIds |->
                            IF w.passes[j].active /\ w.passes[j].aliased
                            THEN [w.passes[j] EXCEPT !.aliased = FALSE, !.arr = w.queue]
                            ELSE w.passes[j]]]

\* processQueue(), behind its loop: filter out what this pass processed, save
FinishPass(w, i) ==
    LET w1 == ReplaceQueue(w, WithoutIds(w.queue, Range(w.passes[i].processed)))
    IN SaveQueue([w1 EXCEPT !.passes[i] = IdlePass])

\* processQueue(), one turn of its loop: the continuation behind
\* `await this.processOperation(operation)`
ProcessStep(w, i, ok) ==
    LET op == PassArr(w, i)[w.passes[i].idx]
        r == ProcessOperation(w, op, ok)
        p1 == [r.w.passes[i] EXCEPT
                 !.processed = IF r.success THEN Append(@, op.id) ELSE @,
                 !.idx = @ + 1]
        w2 == [r.w EXCEPT !.passes[i] = p1]
    IN IF r.success /\ p1.idx <= Len(PassArr(w2, i)) THEN w2
       ELSE FinishPass(w2, i)

(***************************************************************************)
(* ShadowLinkPlugin: connection status and the periodic re-diff.           *)
(***************************************************************************)
\* statusHandler(event), as far as it touches the state of this component
\* (its retry bookkeeping and awareness are in the connection's)
StatusHandler(w, status) ==
    LET wasOnline == w.isOnline
        w1 == CASE status = "connected" ->
                     [w EXCEPT !.connectionStatus = "connected", !.isOnline = TRUE]
                 [] status = "disconnected" /\ w.connectionStatus # "disconnected" ->
                     [w EXCEPT !.connectionStatus = "disconnected", !.isOnline = FALSE]
                 [] status = "connecting" /\ w.connectionStatus # "connecting" ->
                     [w EXCEPT !.connectionStatus = "connecting", !.isOnline = FALSE]
                 [] OTHER -> w
    IN IF wasOnline # w1.isOnline
       THEN LET w2 == SetOnlineStatus(w1, w1.isOnline)
            IN IF w1.isOnline /\ ~wasOnline THEN [w2 EXCEPT !.syncTimer = TRUE] ELSE w2
       ELSE w1

\* connectionCloseHandler(event)
ConnectionCloseHandler(w) == SetOnlineStatus([w EXCEPT !.isOnline = FALSE], FALSE)

\* `!t || Date.now() - t > window`
NotRecent(t, window) == t = 0 \/ now - t > window

RECURSIVE PushMissingLocal(_, _, _)
PushMissingLocal(w, localPaths, remotePaths) ==
    IF localPaths = <<>> THEN w
    ELSE LET localPath == localPaths[1]
             recentOp == IF w.lastSync[Key("create", localPath)] # 0
                         THEN w.lastSync[Key("create", localPath)]
                         ELSE w.lastSync[Key("rename", localPath)]
             w1 == IF localPath \notin remotePaths /\ NotRecent(recentOp, PeriodicGraceMs)
                   THEN [w EXCEPT !.paths = Append(@, localPath)]
                   ELSE w
         IN PushMissingLocal(w1, Tail(localPaths), remotePaths)

RECURSIVE CreateMissingRemote(_, _, _)
CreateMissingRemote(w, remotePaths, localPaths) ==
    IF remotePaths = <<>> THEN w
    ELSE LET remotePath == remotePaths[1]
             w1 == IF remotePath \notin localPaths
                      /\ NotRecent(w.lastSync[Key("delete", remotePath)], PeriodicGraceMs)
                   THEN VaultCreate(w, remotePath)
                   ELSE w
         IN CreateMissingRemote(w1, Tail(remotePaths), localPaths)

\* performPeriodicSyncCheck()
PerformPeriodicSyncCheck(w) ==
    LET remotePaths == Range(w.paths)
        localPaths == w.files
    IN CreateMissingRemote(PushMissingLocal(w, SetToSeq(localPaths), remotePaths),
                           SetToSeq(remotePaths), localPaths)

(***************************************************************************)
(* Actions of the queue component.                                         *)
(***************************************************************************)
\* the user creates a file: the vault's 'create' event
UserCreate(p) ==
    /\ userEvents < MaxUserEvents
    /\ userEvents' = userEvents + 1
    /\ p \notin files
    /\ Commit(VaultCreate([World EXCEPT !.offlineDeleted = @ \ {p}], p))
    /\ UNCHANGED now

\* the user deletes a file: the vault's 'delete' event
UserDelete(p) ==
    /\ userEvents < MaxUserEvents
    /\ userEvents' = userEvents + 1
    /\ p \in files
    /\ Commit(VaultDelete([World EXCEPT !.offlineDeleted =
                               IF isOnline THEN @ ELSE @ \cup {p}], p))
    /\ UNCHANGED now

\* the user renames a file: the vault's 'rename' event
UserRename(p, q) ==
    /\ userEvents < MaxUserEvents
    /\ userEvents' = userEvents + 1
    /\ p \in files
    /\ q \notin files
    /\ Commit(VaultRename([World EXCEPT !.offlineDeleted = @ \ {q}], p, q))
    /\ UNCHANGED now

\* a provider emits 'status'
Status(status) ==
    /\ UNCHANGED userEvents
    /\ Commit(StatusHandler(World, status))
    /\ UNCHANGED now

\* a provider emits 'connection-close'
ConnectionClose ==
    /\ UNCHANGED userEvents
    /\ Commit(ConnectionCloseHandler(World))
    /\ UNCHANGED now

\* a suspended replay pass resumes
Replay(i, ok) ==
    /\ UNCHANGED userEvents
    /\ passes[i].active
    /\ Commit(ProcessStep(World, i, ok))
    /\ UNCHANGED now

\* the 1 s timer of statusHandler fires
SyncTimerFires ==
    /\ UNCHANGED userEvents
    /\ syncTimer
    /\ Commit(PerformPeriodicSyncCheck([World EXCEPT !.syncTimer = FALSE]))
    /\ UNCHANGED now

\* the 30 s interval of setupPeriodicSyncCheck (or the 2 s timer of
\* scheduleImmediateSync) fires
PeriodicSyncCheck ==
    /\ UNCHANGED userEvents
    /\ isOnline
    /\ Commit(PerformPeriodicSyncCheck(World))
    /\ UNCHANGED now

\* clearQueue()
ClearQueueCall(w) ==
    LET w1 == SaveQueue(ReplaceQueue(w, <<>>))
    IN [w1 EXCEPT !.passes = [j \in PassIds |->
                                IF w1.passes[j].active
                                THEN [w1.passes[j] EXCEPT !.cleared = TRUE]
                                ELSE w1.passes[j]]]

\* the user clears the queue from the settings tab
ClearQueue ==
    /\ UNCHANGED userEvents
    /\ Commit(ClearQueueCall(World))
    /\ UNCHANGED now

\* the plugin is unloaded and loaded again: a new OfflineOperationManager
\* loads the queue (loadQueue); what was in memory is gone
Restart ==
    LET loaded == Parse(localStorage)
    IN /\ Commit([World EXCEPT
                    !.isOnline = FALSE, !.connectionStatus = "disconnected",
                    !.lastSync = [k \in Kinds \X Paths |-> 0],
                    !.syncTimer = FALSE, !.mgrOnline = FALSE,
                    !.queue = loaded,
                    !.passes = [i \in PassIds |-> IdlePass],
                    !.restored = {loaded[i].id : i \in DOMAIN loaded}])
       /\ UNCHANGED <<now, userEvents>>

\* time passes
Tick ==
    /\ now + ClockStepMs <= (MaxTicks + 1) * ClockStepMs
    /\ now' = now + ClockStepMs
    /\ UNCHANGED <<files, paths, isOnline, connectionStatus, lastSyncTimestamps,
                   syncTimer, mgrOnline, operationQueue, passes, localStorage,
                   nextId, restored, offlineDeleted, userEvents>>
    /\ UNCHANGED nonQueueVars

\* the vault as the plugin finds it when it loads
InitialFiles == {{}, {"a.md"}}

InitQueue ==
    /\ LaterIdle
    /\ now = ClockStepMs
    /\ files \in InitialFiles
    /\ paths = SetToSeq(files)
    /\ isOnline = FALSE
    /\ connectionStatus = "disconnected"
    /\ lastSyncTimestamps = [k \in Kinds \X Paths |-> 0]
    /\ syncTimer = FALSE
    /\ mgrOnline = FALSE
    /\ operationQueue = <<>>
    /\ passes = [i \in PassIds |-> IdlePass]
    /\ localStorage = <<>>
    /\ nextId = 0
    /\ restored = {}
    /\ offlineDeleted = {}
    /\ userEvents = 0
    /\ policy = "auto"
    /\ ResolverIdle
    /\ OpenIdle
    /\ SwitchIdle
    /\ RelayIdle

NextQueue ==
    \/ \E p \in Paths : UserCreate(p)
    \/ \E p \in Paths : UserDelete(p)
    \/ \E p, q \in Paths : UserRename(p, q)
    \/ \E status \in {"connected", "disconnected", "connecting"} : Status(status)
    \/ ConnectionClose
    \/ \E i \in PassIds, ok \in BOOLEAN : Replay(i, ok)
    \/ SyncTimerFires
    \/ PeriodicSyncCheck
    \/ ClearQueue
    \/ Restart
    \/ Tick

SpecQueue == InitQueue /\ [][NextQueue]_vars

(***************************************************************************)
(* Claims about the offline queue.                                         *)
(***************************************************************************)
OpPaths(op) == {op.path, op.newPath} \ {NoPath}
Overlap(a, b) == OpPaths(a) \cap OpPaths(b) # {}
Ids(queue) == {queue[k].id : k \in DOMAIN queue}
LookUp(arr, id) == arr[CHOOSE k \in DOMAIN arr : arr[k].id = id]

\* The order in which pass i applies operations: those it has processed, in
\* the order it processed them, then those it still iterates over.
ReplayOrder(i) ==
    LET arr == PassArr(World, i)
    IN [k \in DOMAIN passes[i].processed |-> LookUp(arr, passes[i].processed[k])]
       \o SubSeq(arr, passes[i].idx, Len(arr))

\* C2: in every replay pass, of two queued operations on overlapping paths the one
\* enqueued first (the smaller id) is applied first, also when the queue was
\* saved and loaded again by a new manager between enqueue and replay.
C2_ReplayInEnqueueOrder ==
    \A i \in PassIds : passes[i].active =>
        LET order == ReplayOrder(i)
        IN \A j, k \in DOMAIN order :
              (j < k /\ Overlap(order[j], order[k])) => order[j].id < order[k].id

\* C2 witness: a pass over a reloaded queue has applied one operation and is
\* about to apply a later one on the same path.
C2_Witness ==
    \E i \in PassIds :
        /\ passes[i].active
        /\ Len(passes[i].processed) >= 1
        /\ LET arr == PassArr(World, i)
               next == arr[passes[i].idx]
               prev == LookUp(arr, passes[i].processed[Len(passes[i].processed)])
           IN /\ Overlap(prev, next)
              /\ prev.timestamp < next.timestamp
              /\ {prev.id, next.id} \subseteq restored

\* the step in which pass i halts at the operation it awaited
HaltsAt(i, ok) ==
    /\ passes[i].active
    /\ ~ProcessOperation(World, PassArr(World, i)[passes[i].idx], ok).success
    /\ Replay(i, ok)

\* the failed operation and everything ordered after it
RestFrom(i) ==
    LET arr == PassArr(World, i)
    IN SubSeq(arr, passes[i].idx, Len(arr)) \o WithoutIds(operationQueue, Ids(arr))

EffectInMetadata(op, list) ==
    CASE op.type = "create" -> op.path \in Range(list)
      [] op.type = "delete" -> op.path \notin Range(list)
      [] op.type = "rename" -> op.path \notin Range(list) /\ op.newPath \in Range(list)
      [] OTHER -> TRUE

\* C4: a replay step removes an operation from the queue only when its effect
\* is in the shared metadata (judged for the last queued operation on a path).
C4_RemovedOnlyWhenApplied ==
    [][(\E i \in PassIds, ok \in BOOLEAN : Replay(i, ok)) =>
          \A k \in DOMAIN operationQueue :
              ( /\ operationQueue[k].id \notin Ids(operationQueue')
                /\ \A m \in (k+1)..Len(operationQueue) :
                       ~Overlap(operationQueue[k], operationQueue[m]) )
              => EffectInMetadata(operationQueue[k], paths')]_vars

ReplayDone == isOnline /\ operationQueue = <<>> /\ \A i \in PassIds : ~passes[i].active

\* C5: once the client is back online and the queue has been replayed, a path
\* the user deleted while offline has not been created again locally and, after
\* the scheduled synchronization has run, is absent from the shared list.
C5_OfflineDeleteReflected ==
    \A p \in offlineDeleted :
        ReplayDone => (p \notin files /\ (~syncTimer => p \notin Range(paths)))

(***************************************************************************)
(* ConflictResolver (src/main.ts 12-225).  A text is a sequence of         *)
(* characters; a line is a text without "\n".                              *)
(***************************************************************************)
MaxTextLen == 2
Chars == {"a", "b", " ", "\n"}
Whitespace == {" ", "\n"}
RECURSIVE TextsOfLen(_)
TextsOfLen(n) ==
    IF n = 0 THEN {<<>>}
    ELSE {Append(t, c) : t \in TextsOfLen(n - 1), c \in Chars}

Texts == UNION {TextsOfLen(n) : n \in 0..MaxTextLen}

\* String.prototype.trim
RECURSIVE TrimStart(_)
TrimStart(t) ==
    IF t # <<>> /\ Head(t) \in Whitespace THEN TrimStart(Tail(t)) ELSE t

RECURSIVE TrimEnd(_)
TrimEnd(t) ==
    IF t # <<>> /\ t[Len(t)] \in Whitespace
    THEN TrimEnd(SubSeq(t, 1, Len(t) - 1))
    ELSE t

Trim(t) == TrimEnd(TrimStart(t))

\* text.split('\n')
RECURSIVE Split(_)
Split(t) ==
    IF \E k \in DOMAIN t : t[k] = "\n"
    THEN LET k == CHOOSE k \in DOMAIN t :
                     t[k] = "\n" /\ \A j \in 1..(k-1) : t[j] # "\n"
         IN <<SubSeq(t, 1, k - 1)>> \o Split(SubSeq(t, k + 1, Len(t)))
    ELSE <<t>>

\* lines.join('\n')
RECURSIVE Join(_)
Join(lines) ==
    IF lines = <<>> THEN <<>>
    ELSE IF Len(lines) = 1 THEN lines[1]
    ELSE lines[1] \o <<"\n">> \o Join(Tail(lines))

\* findChangedLines: the (0-based) indices of the lines that are not blank
FindChangedLines(lines) == {i - 1 : i \in {j \in DOMAIN lines : Trim(lines[j]) # <<>>}}

HasOverlap(set1, set2) == \E item \in set1 : item \in set2

CanSimpleMerge(localLines, remoteLines) ==
    ~HasOverlap(FindChangedLines(localLines), FindChangedLines(remoteLines))

RECURSIVE MergeFrom(_, _)
MergeFrom(merged, rest) ==
    IF rest = <<>> THEN merged
    ELSE LET line == Head(rest)
         IN IF Trim(line) # <<>> /\ line \notin Range(merged)
            THEN MergeFrom(Append(merged, line), Tail(rest))
            ELSE MergeFrom(merged, Tail(rest))

PerformSimpleMerge(localLines, remoteLines) == MergeFrom(localLines, remoteLines)

\* threeWayMerge: `null` says it returned null
NullMerge == [null |-> TRUE, text |-> <<>>]
Merged(t) == [null |-> FALSE, text |-> t]

ThreeWayMerge(local, remote) ==
    LET localLines == Split(local)
        remoteLines == Split(remote)
    IN IF Len(localLines) = 0 \/ (Len(localLines) = 1 /\ localLines[1] = <<>>)
       THEN Merged(remote)
       ELSE IF Len(remoteLines) = 0 \/ (Len(remoteLines) = 1 /\ remoteLines[1] = <<>>)
       THEN Merged(local)
       ELSE IF CanSimpleMerge(localLines, remoteLines)
       THEN Merged(Join(PerformSimpleMerge(localLines, remoteLines)))
       ELSE NullMerge

\* The resolver's state as a record.  `calls` counts the vault writes of the
\* call in progress, `thrown` says an exception is propagating.
Resolver ==
    [canon |-> canon, backups |-> backups, result |-> result, notice |-> notice,
     threw |-> threw, ranBackup |-> ranBackup, calls |-> 0, thrown |-> FALSE]

\* vault.modify(file, content); it throws at the calls in `fails`
VaultModify(r, content, fails) ==
    LET n == r.calls + 1
    IN IF n \in fails
       THEN [r EXCEPT !.calls = n, !.thrown = TRUE]
       ELSE [r EXCEPT !.calls = n, !.canon = content]

\* vault.create(backupPath, content)
VaultCreateBackup(r, kind, content, fails) ==
    LET n == r.calls + 1
    IN IF n \in fails
       THEN [r EXCEPT !.calls = n, !.thrown = TRUE]
       ELSE [r EXCEPT !.calls = n,
                      !.backups = @ \cup {[kind |-> kind, content |-> content]}]

ApplyRemoteVersion(r, c, fails) ==
    IF r.canon # NoFile THEN VaultModify(r, c.remoteVersion, fails) ELSE r

HandleUnresolvableConflict(r, c, fails) ==
    LET r0 == [r EXCEPT !.ranBackup = TRUE]
        r1 == VaultCreateBackup(r0, "local", c.localVersion, fails)
        r2 == IF r1.thrown THEN r1 ELSE ApplyRemoteVersion(r1, c, fails)
        r3 == IF r2.thrown THEN r2
              ELSE VaultCreateBackup(r2, "remote", c.remoteVersion, fails)
    IN IF r3.thrown
       THEN [r3 EXCEPT !.thrown = FALSE, !.notice = "failed", !.result = "false"]
       ELSE [r3 EXCEPT !.notice = "backups", !.result = "true"]

BackupResolveConflict(r, c, fails) == HandleUnresolvableConflict(r, c, fails)

AutoResolveConflict(r, c, fails) ==
    LET merged == IF c.type = "content"
                  THEN ThreeWayMerge(c.localVersion, c.remoteVersion)
                  ELSE NullMerge
        doMerge == c.type = "content" /\ ~merged.null /\ r.canon # NoFile
        remoteNewer == c.remoteTimestamp > c.localTimestamp
        r1 == IF doMerge THEN VaultModify(r, merged.text, fails)
              ELSE IF remoteNewer THEN ApplyRemoteVersion(r, c, fails)
              ELSE r
        shown == IF doMerge THEN "merged"
                 ELSE IF remoteNewer THEN "remote" ELSE "local"
    IN IF r1.thrown
       THEN HandleUnresolvableConflict(
                [r1 EXCEPT !.thrown = FALSE, !.threw = TRUE], c, fails)
       ELSE [r1 EXCEPT !.notice = shown, !.result = "true"]

\* the callback manualResolveConflict gives to the modal
ManualCallback(r, c, resolution, fails) ==
    LET caught(x) == [x EXCEPT !.thrown = FALSE, !.threw = TRUE, !.result = "false"]
    IN CASE resolution = "keepLocal" ->
              [r EXCEPT !.notice = "local", !.result = "true"]
         [] resolution = "keepRemote" ->
              LET r1 == ApplyRemoteVersion(r, c, fails)
              IN IF r1.thrown THEN caught(r1)
                 ELSE [r1 EXCEPT !.notice = "remote", !.result = "true"]
         [] resolution = "merge" ->
              LET merged == ThreeWayMerge(c.localVersion, c.remoteVersion)
              IN IF ~merged.null
                 THEN IF r.canon # NoFile
                      THEN LET r1 == VaultModify(r, merged.text, fails)
                           IN IF r1.thrown THEN caught(r1)
                              ELSE [r1 EXCEPT !.notice = "merged", !.result = "true"]
                      ELSE [r EXCEPT !.result = "false"]
                 ELSE [r EXCEPT !.result = "false"]
         [] resolution = "backup" ->
              [HandleUnresolvableConflict(r, c, fails) EXCEPT !.result = "true"]
         [] OTHER -> [r EXCEPT !.result = "false"]

\* the buttons the modal shows for a conflict
Resolutions(c) ==
    {"keepLocal", "keepRemote", "backup"}
        \cup (IF c.type = "content" THEN {"merge"} ELSE {})

CommitResolver(r, phase) ==
    /\ rPhase' = phase
    /\ canon' = r.canon
    /\ backups' = r.backups
    /\ result' = r.result
    /\ notice' = r.notice
    /\ threw' = r.threw
    /\ ranBackup' = r.ranBackup
    /\ UNCHANGED <<policy, conflict>>

MaxVaultCalls == 4
FailSets == SUBSET (1..MaxVaultCalls)
ConflictTypes == {"content", "structure", "concurrent"}
ConflictInfo(type, local, remote, localTs, remoteTs, isResolvable) ==
    [type |-> type, localVersion |-> local, remoteVersion |-> remote,
     localTimestamp |-> localTs, remoteTimestamp |-> remoteTs,
     isResolvable |-> isResolvable]

\* a caller detects a conflict on a file and calls resolveConflict
RaiseConflict(c, exists) ==
    /\ rPhase = "idle"
    /\ rPhase' = "pending"
    /\ conflict' = c
    /\ canon' = IF exists THEN c.localVersion ELSE NoFile
    /\ UNCHANGED <<policy, backups, result, notice, threw, ranBackup>>
    /\ UNCHANGED nonResolverVars

\* Some caller detects a conflict: the two versions differ; the file is
\* missing only for a structure conflict (deleted locally, listed remotely).
DetectConflict ==
    /\ rPhase = "idle"
    /\ \E type \in ConflictTypes, local \in Texts, remote \in Texts,
          remoteTs \in {0, 2}, isResolvable \in BOOLEAN, exists \in BOOLEAN :
            /\ local # remote
            /\ exists \/ type = "structure"
            /\ RaiseConflict(ConflictInfo(type, local, remote, 1, remoteTs,
                                          isResolvable), exists)

\* resolveConflict runs up to its return, or up to the modal being opened
ResolveConflict(fails) ==
    /\ rPhase = "pending"
    /\ IF ~conflict.isResolvable
       THEN CommitResolver(HandleUnresolvableConflict(Resolver, conflict, fails), "done")
       ELSE IF policy = "manual"
       THEN CommitResolver(Resolver, "modal")
       ELSE IF policy = "backup"
       THEN CommitResolver(BackupResolveConflict(Resolver, conflict, fails), "done")
       ELSE CommitResolver(AutoResolveConflict(Resolver, conflict, fails), "done")
    /\ UNCHANGED nonResolverVars

\* the user presses a button of the modal (a click outside it is keepLocal)
ModalChoice(resolution, fails) ==
    /\ rPhase = "modal"
    /\ resolution \in Resolutions(conflict)
    /\ CommitResolver(ManualCallback(Resolver, conflict, resolution, fails), "done")
    /\ UNCHANGED nonResolverVars

\* the queue component at rest
QueueIdle ==
    /\ now = ClockStepMs
    /\ files = {}
    /\ paths = <<>>
    /\ isOnline = FALSE
    /\ connectionStatus = "disconnected"
    /\ lastSyncTimestamps = [k \in Kinds \X Paths |-> 0]
    /\ syncTimer = FALSE
    /\ mgrOnline = FALSE
    /\ operationQueue = <<>>
    /\ passes = [i \in PassIds |-> IdlePass]
    /\ localStorage = <<>>
    /\ nextId = 0
    /\ restored = {}
    /\ offlineDeleted = {}
    /\ userEvents = 0

InitResolve ==
    /\ LaterIdle
    /\ QueueIdle
    /\ OpenIdle
    /\ SwitchIdle
    /\ RelayIdle
    /\ policy \in {"auto", "manual", "backup"}
    /\ ResolverIdle

NextResolve ==
    \/ DetectConflict
    \/ \E fails \in FailSets : ResolveConflict(fails)
    \/ \E resolution \in {"keepLocal", "keepRemote", "merge", "backup"},
          fails \in FailSets : ModalChoice(resolution, fails)

SpecResolve == InitResolve /\ [][NextResolve]_vars

(***************************************************************************)
(* Claims about the resolver.                                              *)
(***************************************************************************)
HasBackup(kind, content) == [kind |-> kind, content |-> content] \in backups

BothBackups ==
    /\ HasBackup("local", conflict.localVersion)
    /\ HasBackup("remote", conflict.remoteVersion)

\* no vault write failed during the call
NoWriteFailed == ~threw /\ notice # "failed"

\* the states the resolver may end a conflict in
TerminalState ==
    \/ /\ notice = "merged"
       /\ canon = ThreeWayMerge(conflict.localVersion, conflict.remoteVersion).text
    \/ notice = "local"
    \/ notice = "remote" /\ canon \in {conflict.remoteVersion, NoFile}
    \/ notice = "backups" /\ BothBackups

\* C7: every call of resolveConflict that finishes, for any type and policy,
\* reports success and leaves the conflict merged, one side kept, or both sides
\* preserved as backups (already when no vault write fails).
C7_ConflictReachesTerminal ==
    (rPhase = "done" /\ NoWriteFailed) => (result = "true" /\ TerminalState)

C10_BackupIsFallback ==
    (rPhase = "done" /\ (~conflict.isResolvable \/ threw)) => ranBackup

(***************************************************************************)
(* Opening a document (src/main.ts 1580-1850).  `canon` is the content of  *)
(* the file, `editor` what the editor shows.  The binding of the editor to *)
(* the replicated text (yCollab) is left out.                              *)
(***************************************************************************)
MaxOpenTextLen == 1
MaxOpens == 2
OpenTexts == {t \in Texts : Len(t) <= MaxOpenTextLen}

CommitOpen(phase, pending, text, remote, version, shown) ==
    /\ oPhase' = phase
    /\ handlers' = pending
    /\ ytext' = text
    /\ remoteDoc' = remote
    /\ idbDoc' = text
    /\ documentVersions' = version
    /\ editor' = shown

\* detectContentConflicts: is a ConflictInfo returned?
DetectContentConflicts(localContent, remoteContent, localVersion) ==
    /\ localContent # remoteContent
    /\ localVersion # NoVersion /\ localVersion # <<>>
    /\ localVersion # remoteContent

\* the handler calls resolveConflict and waits for it
HandToResolver(remoteContent) ==
    /\ rPhase' = "pending"
    /\ routed' = TRUE
    /\ opens' = opens
    /\ conflict' = ConflictInfo("content", canon, remoteContent, 1, 2, TRUE)
    /\ UNCHANGED <<policy, canon, backups, result, notice, threw, ranBackup>>

\* handleFileOpenInternal up to its first defer: cleanupCurrent, a new doc
\* filled from IndexedDB, a new provider, the observer, the handlers
OpenFile ==
    /\ oPhase = "closed"
    /\ opens < MaxOpens
    /\ opens' = opens + 1
    /\ CommitOpen("opened", {"final"}, idbDoc, remoteDoc, documentVersions, editor)
    /\ routed' = FALSE
    /\ UNCHANGED <<nonOpenVars, rvars>>

\* The provider receives the relay's state; the observer of ytext stores the
\* new text in documentVersions; then 'sync' is emitted.
SyncArrives ==
    /\ oPhase = "opened"
    /\ CommitOpen("synced", handlers \cup {"once", "init"}, remoteDoc, remoteDoc,
                  IF ytext # remoteDoc THEN remoteDoc ELSE documentVersions,
                  editor)
    /\ UNCHANGED <<nonOpenVars, rvars, routed, opens>>

\* the provider.once('sync') handler
OnceSyncHandler ==
    /\ "once" \in handlers
    /\ IF DetectContentConflicts(canon, ytext, documentVersions)
       THEN /\ HandToResolver(ytext)
            /\ handlers' = handlers \ {"once"}
            /\ UNCHANGED <<oPhase, ytext, remoteDoc, idbDoc, documentVersions, editor>>
       ELSE /\ oPhase' = oPhase
            /\ handlers' = handlers \ {"once"}
            /\ documentVersions' = ytext
            /\ idbDoc' = <<>>
            /\ UNCHANGED <<ytext, remoteDoc, editor, rvars, routed, opens>>
    /\ UNCHANGED nonOpenVars

\* initializeText, run by pendingSyncHandler
InitializeText ==
    /\ "init" \in handlers
    /\ LET pending == handlers \ {"init"}
           newValue == ytext
           cur == editor
       IN IF Len(ytext) = 0
          THEN /\ CommitOpen(oPhase, pending, cur, cur, cur, editor)
               /\ UNCHANGED <<rvars, routed, opens>>
          ELSE IF cur = newValue
          THEN /\ handlers' = pending
               /\ UNCHANGED <<oPhase, ytext, remoteDoc, idbDoc, documentVersions,
                              editor, rvars, routed, opens>>
          ELSE IF Trim(newValue) = <<>> /\ Trim(cur) # <<>>
          THEN /\ CommitOpen(oPhase, pending, cur, cur, cur, editor)
               /\ UNCHANGED <<rvars, routed, opens>>
          ELSE IF /\ Trim(cur) # <<>> /\ Trim(newValue) # <<>>
                  /\ DetectContentConflicts(canon, newValue, documentVersions)
          THEN /\ HandToResolver(newValue)
               /\ handlers' = pending
               /\ UNCHANGED <<oPhase, ytext, remoteDoc, idbDoc, documentVersions, editor>>
          ELSE /\ handlers' = pending
               /\ editor' = newValue
               /\ documentVersions' = newValue
               /\ UNCHANGED <<oPhase, ytext, remoteDoc, idbDoc, rvars, routed, opens>>
    /\ UNCHANGED nonOpenVars

\* the final content synchronisation of handleFileOpenInternal
FinalSync ==
    /\ "final" \in handlers
    /\ handlers' = handlers \ {"final"}
    /\ editor' = IF editor # ytext /\ ~(Trim(ytext) = <<>> /\ Trim(editor) # <<>>)
                 THEN ytext
                 ELSE editor
    /\ UNCHANGED <<oPhase, ytext, remoteDoc, idbDoc, documentVersions, routed,
                   opens, nonOpenVars, rvars>>

\* cleanupCurrent: the session is destroyed, its callbacks never take effect
CloseFile ==
    /\ oPhase # "closed"
    /\ oPhase' = "closed"
    /\ handlers' = {}
    /\ ytext' = <<>>
    /\ UNCHANGED <<remoteDoc, idbDoc, documentVersions, editor, routed, opens, nonOpenVars, rvars>>

\* while the document is not open here, another client changes it
RemoteEdit(t) ==
    /\ oPhase = "closed"
    /\ t # remoteDoc
    /\ remoteDoc' = t
    /\ UNCHANGED <<oPhase, handlers, ytext, idbDoc, documentVersions, editor,
                   routed, opens, nonOpenVars, rvars>>

\* while the document is not open here, the file is changed locally
LocalEdit(t) ==
    /\ oPhase = "closed"
    /\ rPhase \in {"idle", "done"}
    /\ t # canon
    /\ canon' = t
    /\ editor' = t
    /\ UNCHANGED <<oPhase, handlers, ytext, remoteDoc, idbDoc, documentVersions,
                   routed, opens, nonOpenVars, policy, rPhase, conflict, backups, result, notice,
                   threw, ranBackup>>

InitOpen ==
    /\ LaterIdle
    /\ QueueIdle
    /\ SwitchIdle
    /\ RelayIdle
    /\ policy \in {"auto", "manual", "backup"}
    /\ rPhase = "idle"
    /\ conflict = NoConflict
    /\ canon \in OpenTexts
    /\ backups = {}
    /\ result = "none"
    /\ notice = "none"
    /\ threw = FALSE
    /\ ranBackup = FALSE
    /\ oPhase = "closed"
    /\ handlers = {}
    /\ ytext = <<>>
    /\ remoteDoc \in OpenTexts
    /\ idbDoc = <<>>
    /\ documentVersions = NoVersion
    /\ editor = canon
    /\ routed = FALSE
    /\ opens = 0

NextOpen ==
    \/ OpenFile
    \/ SyncArrives
    \/ OnceSyncHandler
    \/ InitializeText
    \/ FinalSync
    \/ CloseFile
    \/ \E t \in OpenTexts : RemoteEdit(t)
    \/ \E t \in OpenTexts : LocalEdit(t)
    \/ ResolveConflict({})
    \/ \E resolution \in {"keepLocal", "keepRemote", "merge", "backup"} :
          ModalChoice(resolution, {})

SpecOpen == InitOpen /\ [][NextOpen]_vars

\* the case of the claim: both contents non-empty and different
BothDiffer == Trim(canon) # <<>> /\ Trim(remoteDoc) # <<>> /\ canon # remoteDoc

\* C8: when an open has initialised the text while the replicated document and
\* the local content are both non-empty and differ, the difference was handed
\* to the resolver, and the editor was not overwritten without the resolver.
C8_OpenRoutesThroughResolver ==
    /\ (BothDiffer /\ oPhase = "synced" /\ "init" \notin handlers) => routed
    /\ (BothDiffer /\ oPhase # "closed" /\ editor # canon) => routed

(***************************************************************************)
(* Switching between documents (src/main.ts 896-915, 1580-1691).  Every    *)
(* open creates a new Y.Doc, so a session has its own awareness client id. *)
(* What a session sends travels in order on its own connection; the relay  *)
(* (setupWSConnection, src/server/server.js 407) adds a record when an     *)
(* awareness state arrives, removes it when a null state arrives, and      *)
(* removes the records of a connection when it sees the connection closed. *)
(***************************************************************************)
MaxSessions == 3
MaxWire == 3
SessionIds == 1..MaxSessions

\* new WebsocketProvider(...) and awareness.setLocalStateField('user', ...):
\* the state is sent once the socket is open
NewSession(doc) ==
    [doc |-> doc, provider |-> "attached", localState |-> "set",
     releasedWith |-> "none", wire |-> <<"state">>]

\* cleanupCurrent: provider.destroy() stops listening to the awareness and
\* closes the socket; only then doc.destroy() clears the local state, which
\* is no longer sent.  releasedWith records the local state at the release.
CleanupCurrent(ss, p) ==
    IF p = 0
    THEN ss
    ELSE [ss EXCEPT ![p].provider = "destroyed",
                    ![p].releasedWith = ss[p].localState,
                    ![p].localState = "null",
                    ![p].wire = Append(ss[p].wire, "close")]

\* handleFileOpenInternal up to `await this.idb.whenSynced`
BeginOpen(file) ==
    /\ pendingFile = NoDoc
    /\ file # currentFile
    /\ Len(sessions) < MaxSessions
    /\ sessions' = CleanupCurrent(sessions, provider)
    /\ switchedFrom' = provider
    /\ provider' = 0
    /\ currentFile' = NoDoc
    /\ pendingFile' = file
    /\ UNCHANGED <<awarenessSets, nonSwitchVars>>

\* handleFileOpenInternal after the await: provider, currentFile, awareness
CompleteOpen ==
    /\ pendingFile # NoDoc
    /\ sessions' = Append(sessions, NewSession(pendingFile))
    /\ provider' = Len(sessions) + 1
    /\ currentFile' = pendingFile
    /\ pendingFile' = NoDoc
    /\ UNCHANGED <<awarenessSets, switchedFrom, nonSwitchVars>>

\* handleFileOpenInternal(null): no file or no markdown view
OpenNothing ==
    /\ pendingFile = NoDoc
    /\ provider # 0
    /\ sessions' = CleanupCurrent(sessions, provider)
    /\ provider' = 0
    /\ currentFile' = NoDoc
    /\ UNCHANGED <<awarenessSets, pendingFile, switchedFrom, nonSwitchVars>>

\* the provider's 'status' handler: connected, the state is set and sent again
StatusConnected ==
    /\ provider # 0
    /\ Len(sessions[provider].wire) < MaxWire
    /\ sessions' = [sessions EXCEPT ![provider].wire = Append(@, "state")]
    /\ UNCHANGED <<currentFile, provider, awarenessSets, pendingFile,
                   switchedFrom, nonSwitchVars>>

\* the relay handles the next thing that arrives on the connection of s
RelayHandles(s) ==
    /\ s \in 1..Len(sessions)
    /\ sessions[s].wire # <<>>
    /\ LET m == Head(sessions[s].wire)
           doc == sessions[s].doc
       IN awarenessSets' =
              [awarenessSets EXCEPT ![doc] =
                  IF m = "state" THEN @ \cup {s} ELSE @ \ {s}]
    /\ sessions' = [sessions EXCEPT ![s].wire = Tail(@)]
    /\ UNCHANGED <<currentFile, provider, pendingFile, switchedFrom,
                   nonSwitchVars>>

InitSwitch ==
    /\ LaterIdle
    /\ QueueIdle
    /\ policy = "auto"
    /\ ResolverIdle
    /\ OpenIdle
    /\ RelayIdle
    /\ SwitchIdle

NextSwitch ==
    \/ \E file \in Docs : BeginOpen(file)
    \/ CompleteOpen
    \/ OpenNothing
    \/ StatusConnected
    \/ \E s \in SessionIds : RelayHandles(s)

SpecSwitch == InitSwitch /\ [][NextSwitch]_vars

\* the last open is complete and replaced a session on another document
SwitchCompleted ==
    /\ pendingFile = NoDoc
    /\ provider # 0
    /\ switchedFrom # 0
    /\ sessions[switchedFrom].doc # currentFile

\* C6: once a switch from document A to document B is complete, the outgoing
\* session had cleared its local awareness state (null) when its provider was
\* released, and, the relay having handled all that the outgoing session sent,
\* its record is not in the awareness set of A.
C6_NoGhostPresence ==
    SwitchCompleted =>
        /\ sessions[switchedFrom].releasedWith = "null"
        /\ sessions[switchedFrom].wire = <<>> =>
               switchedFrom \notin awarenessSets[sessions[switchedFrom].doc]

(***************************************************************************)
(* The relay server (src/server/server.js) with two clients on one         *)
(* document.  An edit is named after the client that makes it; a Y.Doc is  *)
(* the set of edits applied to it, so two documents with the same edits    *)
(* have the same content whatever the order of arrival.  Messages in       *)
(* flight form sets: the network may reorder them.  The relaying itself is *)
(* setupWSConnection (server.js 407), which sends with the conn.send that  *)
(* server.js 327-357 has replaced.                                         *)
(***************************************************************************)
MessageLimit == 100
WindowMs == 60000
MaxJoins == 2
MaxServerTicks == 1
Edits == Clients
Typists == {1}

\* SecurityValidator.checkRateLimit on the record of one connection
CheckRateLimit(rec, nowMs) ==
    LET record == IF rec.present
                  THEN rec
                  ELSE [present |-> TRUE, count |-> 0, resetTime |-> nowMs + WindowMs]
        fresh == IF nowMs >= record.resetTime
                 THEN [record EXCEPT !.count = 0, !.resetTime = nowMs + WindowMs]
                 ELSE record
    IN IF fresh.count >= MessageLimit
       THEN [allowed |-> FALSE, record |-> fresh]
       ELSE [allowed |-> TRUE, record |-> [fresh EXCEPT !.count = @ + 1]]

\* conn.on('message'): the message is counted; y-websocket's own listener
\* handles it whatever the outcome
Inbound(limits, c) ==
    [limits EXCEPT ![c] = CheckRateLimit(limits[c], serverNow).record]

\* the wrapped conn.send on each connection in `conns`: the connections on
\* which the message is really sent, and the records afterwards
Delivered(limits, conns) ==
    {d \in conns : CheckRateLimit(limits[d], serverNow).allowed}
Outbound(limits, conns) ==
    [d \in Clients |-> IF d \in conns
                       THEN CheckRateLimit(limits[d], serverNow).record
                       ELSE limits[d]]

\* new WebsocketProvider: connection, then the sync handshake.  The client
\* sends sync step 1 and its answer to the relay's step 1 (two inbound
\* messages); the relay sends its answer and its own step 1 (two conn.send).
\* What the relay learns from the client it broadcasts to the others.
Connect(c) ==
    /\ c \notin connected
    /\ joins[c] < MaxJoins
    /\ joins[1] + joins[2] <= MaxJoins
    /\ joins' = [joins EXCEPT ![c] = @ + 1]
    /\ connected' = connected \cup {c}
    /\ LET in2 == Inbound(Inbound(connectionRateLimits, c), c)
           out2 == Outbound(Outbound(in2, {c}), {c})
           news == clientDoc[c] \ serverDoc
           others == IF news = {} THEN {} ELSE connected
       IN /\ connectionRateLimits' = Outbound(out2, others)
          /\ toClient' = toClient \cup {<<d, news>> : d \in Delivered(out2, others)}
    /\ clientDoc' = [clientDoc EXCEPT ![c] = @ \cup serverDoc]
    /\ serverDoc' = serverDoc \cup clientDoc[c]
    /\ UNCHANGED <<serverNow, toServer, nonRelayVars>>

\* provider.destroy() (a switch to another document): the connection closes,
\* cleanupSession deletes its rate limit record
Leave(c) ==
    /\ c \in connected
    /\ connected' = connected \ {c}
    /\ connectionRateLimits' = [connectionRateLimits EXCEPT ![c] = NoRecord]
    /\ toServer' = {m \in toServer : m[1] # c}
    /\ toClient' = {m \in toClient : m[1] # c}
    /\ UNCHANGED <<serverNow, clientDoc, serverDoc, joins, nonRelayVars>>

\* the user of client c types: the update is applied locally and sent
ClientEdit(c) ==
    /\ c \in connected
    /\ c \notin clientDoc[c]
    /\ clientDoc' = [clientDoc EXCEPT ![c] = @ \cup {c}]
    /\ toServer' = toServer \cup {<<c, {c}>>}
    /\ UNCHANGED <<serverNow, connected, connectionRateLimits, serverDoc,
                   toClient, joins, nonRelayVars>>

\* an update arrives at the relay: counted, applied, sent to every connection
\* (the copy sent back to its author changes nothing there and is not kept
\* among the messages in flight)
ServerReceives(m) ==
    /\ m \in toServer
    /\ toServer' = toServer \ {m}
    /\ serverDoc' = serverDoc \cup m[2]
    /\ LET counted == Inbound(connectionRateLimits, m[1])
       IN /\ connectionRateLimits' = Outbound(counted, connected)
          /\ toClient' = toClient \cup
                 {<<d, m[2]>> : d \in Delivered(counted, connected) \ {m[1]}}
    /\ UNCHANGED <<serverNow, connected, clientDoc, joins, nonRelayVars>>

\* an update arrives at a client
ClientReceives(m) ==
    /\ m \in toClient
    /\ toClient' = toClient \ {m}
    /\ clientDoc' = [clientDoc EXCEPT ![m[1]] = @ \cup m[2]]
    /\ UNCHANGED <<serverNow, connected, connectionRateLimits, serverDoc,
                   toServer, joins, nonRelayVars>>

\* client c moves its cursor: an awareness update, counted when it arrives
\* and on every connection it is relayed to
AwarenessUpdate(c) ==
    /\ c \in connected
    /\ connectionRateLimits' =
           Outbound(Inbound(connectionRateLimits, c), connected)
    /\ connectionRateLimits' # connectionRateLimits
    /\ UNCHANGED <<serverNow, connected, clientDoc, serverDoc, toServer,
                   toClient, joins, nonRelayVars>>

\* a rate limit window goes by
TickServer ==
    /\ serverNow < MaxServerTicks * WindowMs
    /\ serverNow' = serverNow + WindowMs
    /\ UNCHANGED <<connected, connectionRateLimits, clientDoc, serverDoc,
                   toServer, toClient, joins, nonRelayVars>>

InitRelay ==
    /\ LaterIdle
    /\ QueueIdle
    /\ policy = "auto"
    /\ ResolverIdle
    /\ OpenIdle
    /\ SwitchIdle
    /\ RelayIdle

NextRelay ==
    \/ \E c \in Clients : Connect(c)
    \/ \E c \in Clients : Leave(c)
    \/ \E c \in Clients : ClientEdit(c)
    \/ \E c \in Clients, es \in SUBSET Edits : ServerReceives(<<c, es>>)
    \/ \E c \in Clients, es \in SUBSET Edits : ClientReceives(<<c, es>>)
    \/ \E c \in Typists : AwarenessUpdate(c)
    \/ TickServer

SpecRelay == InitRelay /\ [][NextRelay]_vars

\* both clients are connected and no update is in flight
Quiescent == connected = Clients /\ toServer = {} /\ toClient = {}

\* C1: when both clients are connected and nothing is in flight any more,
\* the two clients hold the same edits (so the same content), and every edit
\* the relay holds has reached both.
C1_Convergence ==
    Quiescent =>
        /\ clientDoc[1] = clientDoc[2]
        /\ \A c \in Clients : serverDoc \subseteq clientDoc[c]

(***************************************************************************)
(* threeWayMerge as a function (src/main.ts 163-224).  A word such as      *)
(* line1 is written as one symbol of the text: the function only splits at *)
(* '\n', trims blanks and compares whole lines.                            *)
(***************************************************************************)
MaxMergeLen == 3
MergeSymbols == {"line1", "line2", "line3", "\n"}
RECURSIVE MergeTextsOfLen(_)
MergeTextsOfLen(n) ==
    IF n = 0 THEN {<<>>}
    ELSE {Append(t, c) : t \in MergeTextsOfLen(n - 1), c \in MergeSymbols}
MergeTexts == UNION {MergeTextsOfLen(n) : n \in 0..MaxMergeLen}

\* this.threeWayMerge(conflict.localVersion, conflict.remoteVersion)
CallThreeWayMerge ==
    /\ mPhase = "input"
    /\ mPhase' = "merged"
    /\ mResult' = ThreeWayMerge(mLocal, mRemote)
    /\ UNCHANGED <<mLocal, mRemote, nonMergeVars>>

InitMerge ==
    /\ QueueIdle
    /\ policy = "auto"
    /\ ResolverIdle
    /\ OpenIdle
    /\ SwitchIdle
    /\ RelayIdle
    /\ RequestsIdle
    /\ ReconcileIdle
    /\ NewerIdle
    /\ mLocal \in MergeTexts
    /\ mRemote \in MergeTexts
    /\ mResult = NullMerge
    /\ mPhase = "input"

NextMerge == CallThreeWayMerge

SpecMerge == InitMerge /\ [][NextMerge]_vars

\* C11: threeWayMerge of "line1\nline2" and "line1\nline3" returns a text,
\* not null, and the text contains line1, line2 and line3.
C11_MergeableScenario ==
    (/\ mPhase = "merged"
     /\ mLocal = <<"line1", "\n", "line2">>
     /\ mRemote = <<"line1", "\n", "line3">>)
        => /\ ~mResult.null
           /\ {"line1", "line2", "line3"} \subseteq Range(mResult.text)

\* C12: between the open of a document and the provider's initial
\* synchronisation, no step changes the content of an editor that shows text.
C12_NoContentBeforeSync ==
    [][(oPhase = "opened" /\ oPhase' = "opened" /\ Trim(editor) # <<>>)
           => editor' = editor]_vars

(***************************************************************************)
(* File-open requests (src/main.ts 1548-1606, 837-851, 2051-2125).  The    *)
(* null file is written NoDoc.  A call of handleFileOpenInternal stops at  *)
(* `await this.loadCollabModules()` ("load"), at `await                    *)
(* this.idb.whenSynced` ("idb") and at the awaits after the provider is    *)
(* created ("tail").  A markdown view is taken to be there for every file. *)
(* The promise idb.whenSynced of an IndexeddbPersistence that was          *)
(* destroyed before it had loaded is never resolved: the call that waits   *)
(* for it stays where it is.                                               *)
(***************************************************************************)
MaxFileOpenEvents == 3
MaxInvocations == 3
OpenTargets == Docs \cup {NoDoc}

Invocation(file, via) ==
    [file |-> file, pc |-> "load", via |-> via, superseded |-> FALSE,
     idb |-> "none"]

\* this.idb?.destroy() in cleanupCurrent
DestroyIdb(invs) ==
    [i \in DOMAIN invs |->
        [invs[i] EXCEPT !.idb = IF @ = "live" THEN "destroyed" ELSE @]]

\* a task of fileOpenQueue is inside handleFileOpenInternal
QueueTaskRunning ==
    \E i \in DOMAIN invocations :
        invocations[i].via = "queue" /\ invocations[i].pc # "done"

\* the workspace makes another file the active one: handleFileOpenDebounced
FileOpenEvent(file) ==
    /\ fileOpenEvents < MaxFileOpenEvents
    /\ file # activeFile
    /\ fileOpenEvents' = fileOpenEvents + 1
    /\ activeFile' = file
    /\ debounceTimeout' = file
    /\ UNCHANGED <<currentFileOpenRequest, fileOpenQueue, invocations,
                   joinVaultPhase, reconnectPhase, lateAttach,
                   currentFile, provider, sessions, nonRequestsVars>>

\* the debounce timer fires: handleFileOpen.  The calls in progress for
\* another file are from now on superseded.
HandleFileOpen ==
    /\ debounceTimeout # NoTimer
    /\ debounceTimeout' = NoTimer
    /\ currentFileOpenRequest' = debounceTimeout
    /\ fileOpenQueue' = Append(fileOpenQueue, debounceTimeout)
    /\ invocations' =
           [i \in DOMAIN invocations |->
               IF /\ invocations[i].via = "queue"
                  /\ invocations[i].pc # "done"
                  /\ invocations[i].file # debounceTimeout
               THEN [invocations[i] EXCEPT !.superseded = TRUE]
               ELSE invocations[i]]
    /\ UNCHANGED <<activeFile, joinVaultPhase, reconnectPhase, fileOpenEvents,
                   lateAttach, currentFile, provider, sessions, nonRequestsVars>>

\* the next task chained on fileOpenQueue starts
QueueTaskStarts ==
    /\ fileOpenQueue # <<>>
    /\ ~QueueTaskRunning
    /\ Len(invocations) < MaxInvocations
    /\ fileOpenQueue' = Tail(fileOpenQueue)
    /\ invocations' =
           IF currentFileOpenRequest # Head(fileOpenQueue)
           THEN invocations
           ELSE Append(invocations, Invocation(Head(fileOpenQueue), "queue"))
    /\ UNCHANGED <<debounceTimeout, currentFileOpenRequest, activeFile,
                   joinVaultPhase, reconnectPhase, fileOpenEvents, lateAttach,
                   currentFile, provider, sessions, nonRequestsVars>>

\* handleFileOpenInternal from its first await to `await this.idb.whenSynced`
AfterLoad(i) ==
    /\ i \in DOMAIN invocations
    /\ invocations[i].pc = "load"
    /\ LET file == invocations[i].file
       IN IF file # NoDoc /\ currentFile = file
          THEN /\ invocations' = [invocations EXCEPT ![i].pc = "done"]
               /\ UNCHANGED <<currentFile, provider, sessions>>
          ELSE /\ invocations' = [DestroyIdb(invocations) EXCEPT
                      ![i].pc = IF file = NoDoc THEN "done" ELSE "idb",
                      ![i].idb = IF file = NoDoc THEN "none" ELSE "live"]
               /\ sessions' = CleanupCurrent(sessions, provider)
               /\ provider' = 0
               /\ currentFile' = NoDoc
    /\ UNCHANGED <<debounceTimeout, currentFileOpenRequest, fileOpenQueue,
                   activeFile, joinVaultPhase, reconnectPhase, fileOpenEvents,
                   lateAttach, nonRequestsVars>>

\* handleFileOpenInternal after `await this.idb.whenSynced`: the provider is
\* created and stored, currentFile is set
AfterIdb(i) ==
    /\ i \in DOMAIN invocations
    /\ invocations[i].pc = "idb"
    /\ invocations[i].idb = "live"
    /\ invocations' = [invocations EXCEPT ![i].pc = "tail"]
    /\ sessions' = Append(sessions, NewSession(invocations[i].file))
    /\ provider' = Len(sessions) + 1
    /\ currentFile' = invocations[i].file
    /\ lateAttach' = (lateAttach \/ invocations[i].superseded)
    /\ UNCHANGED <<debounceTimeout, currentFileOpenRequest, fileOpenQueue,
                   activeFile, joinVaultPhase, reconnectPhase, fileOpenEvents,
                   nonRequestsVars>>

\* the rest of handleFileOpenInternal
Finish(i) ==
    /\ i \in DOMAIN invocations
    /\ invocations[i].pc = "tail"
    /\ invocations' = [invocations EXCEPT ![i].pc = "done"]
    /\ UNCHANGED <<debounceTimeout, currentFileOpenRequest, fileOpenQueue,
                   activeFile, joinVaultPhase, reconnectPhase, fileOpenEvents,
                   lateAttach, currentFile, provider, sessions, nonRequestsVars>>

\* joinVault, confirmed, up to `await this.plugin.connectMetadata()`
JoinVault ==
    /\ joinVaultPhase = "none"
    /\ joinVaultPhase' = "connecting"
    /\ sessions' = CleanupCurrent(sessions, provider)
    /\ provider' = 0
    /\ currentFile' = NoDoc
    /\ invocations' = DestroyIdb(invocations)
    /\ UNCHANGED <<debounceTimeout, currentFileOpenRequest, fileOpenQueue,
                   activeFile, reconnectPhase, fileOpenEvents,
                   lateAttach, nonRequestsVars>>

\* joinVault after the await: handleFileOpenInternal(activeFile)
JoinVaultOpens ==
    /\ joinVaultPhase = "connecting"
    /\ Len(invocations) < MaxInvocations
    /\ joinVaultPhase' = "done"
    /\ invocations' = IF activeFile # NoDoc
                      THEN Append(invocations, Invocation(activeFile, "joinVault"))
                      ELSE invocations
    /\ UNCHANGED <<debounceTimeout, currentFileOpenRequest, fileOpenQueue,
                   activeFile, reconnectPhase, fileOpenEvents, lateAttach,
                   currentFile, provider, sessions, nonRequestsVars>>

\* reconnect() up to `await this.connectMetadata()`
Reconnect ==
    /\ reconnectPhase = "none"
    /\ reconnectPhase' = "connecting"
    /\ UNCHANGED <<debounceTimeout, currentFileOpenRequest, fileOpenQueue,
                   invocations, activeFile, joinVaultPhase, fileOpenEvents,
                   lateAttach, currentFile, provider, sessions, nonRequestsVars>>

\* reconnect() after the await: handleFileOpenInternal(this.currentFile)
ReconnectOpens ==
    /\ reconnectPhase = "connecting"
    /\ Len(invocations) < MaxInvocations
    /\ reconnectPhase' = "done"
    /\ invocations' = IF currentFile # NoDoc
                      THEN Append(invocations, Invocation(currentFile, "reconnect"))
                      ELSE invocations
    /\ UNCHANGED <<debounceTimeout, currentFileOpenRequest, fileOpenQueue,
                   activeFile, joinVaultPhase, fileOpenEvents, lateAttach,
                   currentFile, provider, sessions, nonRequestsVars>>

\* handleFileRename of the open file, online: cleanupCurrent, a provider of
\* its own on the old document (kept in a local variable, destroyed when it
\* has synced), then handleFileOpenDebounced(file)
RenameCurrent(newPath) ==
    /\ currentFile # NoDoc
    /\ newPath # currentFile
    /\ fileOpenEvents < MaxFileOpenEvents
    /\ fileOpenEvents' = fileOpenEvents + 1
    /\ sessions' = Append(CleanupCurrent(sessions, provider), NewSession(currentFile))
    /\ provider' = 0
    /\ currentFile' = NoDoc
    /\ invocations' = DestroyIdb(invocations)
    /\ activeFile' = newPath
    /\ debounceTimeout' = newPath
    /\ UNCHANGED <<currentFileOpenRequest, fileOpenQueue, joinVaultPhase,
                   reconnectPhase, lateAttach, nonRequestsVars>>

\* the provider made by handleFileRename has synced: it is destroyed
RenameProviderSynced(s) ==
    /\ s \in DOMAIN sessions
    /\ sessions[s].provider = "attached"
    /\ s # provider
    /\ sessions' = [sessions EXCEPT ![s].provider = "destroyed",
                                    ![s].wire = Append(@, "close")]
    /\ UNCHANGED <<fvars, currentFile, provider, nonRequestsVars>>

InitRequests ==
    /\ QueueIdle
    /\ policy = "auto"
    /\ ResolverIdle
    /\ OpenIdle
    /\ SwitchIdle
    /\ RelayIdle
    /\ MergeIdle
    /\ RequestsIdle
    /\ ReconcileIdle
    /\ NewerIdle

InvocationIds == 1..MaxInvocations

NextRequests ==
    \/ \E file \in OpenTargets : FileOpenEvent(file)
    \/ HandleFileOpen
    \/ QueueTaskStarts
    \/ \E i \in InvocationIds : AfterLoad(i)
    \/ \E i \in InvocationIds : AfterIdb(i)
    \/ \E i \in InvocationIds : Finish(i)
    \/ JoinVault
    \/ JoinVaultOpens
    \/ Reconnect
    \/ ReconnectOpens
    \/ \E newPath \in Docs : RenameCurrent(newPath)
    \/ \E s \in InvocationIds : RenameProviderSynced(s)

SpecRequests == InitRequests /\ [][NextRequests]_vars

\* C13: at most one document provider is alive at any moment.
C13_OneLiveSession ==
    Cardinality({s \in DOMAIN sessions : sessions[s].provider = "attached"}) <= 1

\* every request has been handled and no call is in progress
Settled ==
    /\ debounceTimeout = NoTimer
    /\ fileOpenQueue = <<>>
    /\ \A i \in DOMAIN invocations : invocations[i].pc = "done"
    /\ joinVaultPhase # "connecting"
    /\ reconnectPhase # "connecting"

\* C14: no call attaches a provider after a newer request for another file
\* has superseded it, and once everything has settled the current file is
\* the one of the latest request.
C14_FreshestWins ==
    /\ ~lateAttach
    /\ (Settled /\ currentFileOpenRequest # "none")
           => currentFile = currentFileOpenRequest

(***************************************************************************)
(* Reconciliation of the vault with the shared `paths` list, client online.*)
(* A pass is one call of syncLocalWithMetadata, performPeriodicSyncCheck   *)
(* or handleRemotePathChanges; it is suspended at each                     *)
(* `await this.app.vault.create(path, '')` and other code runs meanwhile.  *)
(***************************************************************************)
MaxReconPasses == 2   \* passes suspended at the same time
MaxSyncRuns == 2      \* connectMetadata calls (load, reconnect, joinVault)
MaxRemoteOps == 2     \* changes of the list by the remote client
MaxLocalOps == 1      \* files the local user creates or deletes
RemoteGraceMs == 5000

ReconIds == 1..MaxReconPasses

\* the state of the vault, the list and the timestamps after a reconciliation
\* step (the client stays online: nothing is queued)
CommitVault(w) ==
    /\ files' = w.files
    /\ paths' = w.paths
    /\ lastSyncTimestamps' = w.lastSync
    /\ UNCHANGED <<now, nonReconcileVars>>

\* A mutant of the loop: the first path is not pushed.
PushAllButFirst(list, toPush) ==
    IF toPush = <<>> THEN list ELSE list \o Tail(toPush)

\* `for (const path of ...) arr.push([path])`
RECURSIVE PushAll(_, _)
PushAll(list, toPush) ==
    IF toPush = <<>> THEN list
    ELSE PushAll(Append(list, toPush[1]), Tail(toPush))

\* the local variables of a pass that starts now (the snapshots localSet and
\* remote are kept for syncLocalWithMetadata, whose branches they select; the
\* other passes have used theirs once `todo` is computed)
ReconPass(kind, todo, ops) ==
    [kind |-> kind,
     local |-> IF kind = "sync" THEN files ELSE {},
     remote |-> IF kind = "sync" THEN Range(paths) ELSE {},
     todo |-> todo,
     ops |-> ops, failed |-> FALSE, disturbed |-> FALSE,
     second |-> (quietSince = kind /\ reconPasses = <<>>),
     afterTick |-> tickedSince,
     conflicts |-> {}]

\* the other suspended passes, when the vault or the list changed under them
Disturb(ps, changed) ==
    [j \in 1..Len(ps) |-> IF changed THEN [ps[j] EXCEPT !.disturbed = TRUE]
                          ELSE ps[j]]

\* a pass returns (monitoring is set up at the end of syncLocalWithMetadata)
PassReturns(pass, others) ==
    /\ lastDone' = pass
    /\ reconPasses' = Disturb(others, FALSE)
    /\ quietSince' = IF others = <<>> /\ ~pass.disturbed /\ ~pass.failed
                     THEN pass.kind
                     ELSE "none"
    /\ observers' = IF pass.kind = "sync" THEN 1 ELSE observers

\* a pass starts: its synchronous part pushed `pushed` and left `todo` to
\* create; with nothing to create it returns without suspending
PassStarts(pass, pushed) ==
    /\ IF pass.todo = <<>>
       THEN PassReturns(pass, Disturb(reconPasses, pushed # <<>>))
       ELSE /\ reconPasses' = Append(Disturb(reconPasses, pushed # <<>>), pass)
            /\ lastDone' = NoPass
            /\ UNCHANGED quietSince
            /\ observers' = IF pass.kind = "sync" THEN 0 ELSE observers
    /\ tickedSince' = FALSE
    /\ paths' = PushAll(paths, pushed)
    /\ UNCHANGED <<files, lastSyncTimestamps, now, nonReconcileVars>>
    /\ UNCHANGED <<unmirrored, pulled, lostEvents, remoteOps, localOps>>

\* mergeVaultContents(localSet, remote, conflicts), up to its first await
MergeVaultContents(localSet, remote) ==
    [pushed |-> SetToSeq(localSet \ remote), todo |-> SetToSeq(remote \ localSet)]

StructureGraceMs == 60000

\* `t && Date.now() - t < 60000`
WithinMinute(t) == t # 0 /\ now - t < StructureGraceMs

\* the last branch of syncLocalWithMetadata ("standard sync"): a remote path
\* deleted here within the minute and a local path not created within the
\* minute become `structure` conflicts (the creation time of the file is
\* read from the `create` timestamp)
StandardSync(localSet, remote) ==
    LET remoteOnly == remote \ localSet
        localOnly == localSet \ remote
        deleted == {q \in remoteOnly : WithinMinute(lastSyncTimestamps[Key("delete", q)])}
        created == {q \in localOnly : WithinMinute(lastSyncTimestamps[Key("create", q)])}
    IN [pushed |-> SetToSeq(created),
        todo |-> SetToSeq(remoteOnly \ deleted),
        conflicts |-> {[type |-> "structure", filePath |-> q,
                        suggestedResolution |-> "keepRemote"] : q \in deleted}
                      \cup {[type |-> "structure", filePath |-> q,
                             suggestedResolution |-> "keepLocal"] : q \in localOnly \ created}]

\* the branches of syncLocalWithMetadata
SyncPlan(localSet, remote) ==
    LET hasRemoteContent == remote # {}
        hasLocalContent == localSet # {}
    IN IF hasRemoteContent /\ hasLocalContent
       THEN [pushed |-> MergeVaultContents(localSet, remote).pushed,
             todo |-> MergeVaultContents(localSet, remote).todo,
             conflicts |-> {}]
       ELSE IF hasLocalContent /\ ~hasRemoteContent
       THEN [pushed |-> SetToSeq(localSet), todo |-> <<>>, conflicts |-> {}]
       ELSE IF hasRemoteContent /\ ~hasLocalContent
       THEN [pushed |-> <<>>, todo |-> SetToSeq(remote), conflicts |-> {}]
       ELSE StandardSync(localSet, remote)

\* syncLocalWithMetadata(), up to its first await: the metadata provider
\* reported 'sync' after connectMetadata
SyncLocalWithMetadata ==
    /\ syncRuns < MaxSyncRuns
    /\ Len(reconPasses) < MaxReconPasses
    /\ \A j \in 1..Len(reconPasses) : reconPasses[j].kind # "sync"
    /\ syncRuns' = syncRuns + 1
    /\ LET remote == Range(paths)
           localSet == files
           plan == SyncPlan(localSet, remote)
       IN PassStarts([ReconPass("sync", plan.todo, Len(plan.pushed))
                         EXCEPT !.conflicts = plan.conflicts],
                     plan.pushed)

\* A mutant of the loop: every remote path is passed over.
SkipEveryPath(todo) == <<>>

\* the remote paths performPeriodicSyncCheck passes over without an await
RECURSIVE SkipRecentDeletes(_)
SkipRecentDeletes(todo) ==
    IF todo = <<>> THEN <<>>
    ELSE IF NotRecent(lastSyncTimestamps[Key("delete", todo[1])], PeriodicGraceMs)
         THEN todo
         ELSE SkipRecentDeletes(Tail(todo))

\* A mutant of the diff: every local path is pushed.
MissingLocalAll(localPaths, remotePaths) == localPaths

\* the local paths performPeriodicSyncCheck pushes
MissingLocal(localPaths, remotePaths) ==
    {localPath \in localPaths \ remotePaths :
        LET recentOp == IF lastSyncTimestamps[Key("create", localPath)] # 0
                        THEN lastSyncTimestamps[Key("create", localPath)]
                        ELSE lastSyncTimestamps[Key("rename", localPath)]
        IN NotRecent(recentOp, PeriodicGraceMs)}

\* performPeriodicSyncCheck(), up to its first await
PeriodicCheckStarts ==
    /\ Len(reconPasses) < MaxReconPasses
    /\ LET remotePaths == Range(paths)
           localPaths == files
           pushed == SetToSeq(MissingLocal(localPaths, remotePaths))
           todo == SkipRecentDeletes(SetToSeq(remotePaths \ localPaths))
       IN PassStarts(ReconPass("periodic", todo, Len(pushed)), pushed)

\* the 30 s interval of setupPeriodicSyncCheck fires
PeriodicInterval ==
    /\ observers > 0
    /\ isOnline
    /\ PeriodicCheckStarts
    /\ UNCHANGED syncRuns

\* the 1 s timer of statusHandler or the 2 s timer of scheduleImmediateSync
\* fires, once the connection is back
ImmediateSync ==
    /\ isOnline
    /\ PeriodicCheckStarts
    /\ UNCHANGED syncRuns

\* a suspended pass resumes behind `await this.app.vault.create(path, '')`:
\* the file was created, or the call threw because the file exists
PassStep(i) ==
    /\ i <= Len(reconPasses)
    /\ LET pass == reconPasses[i]
           path == Head(pass.todo)
           created == path \notin files
           w == IF created THEN VaultCreate(World, path) ELSE World
           rest == IF pass.kind = "periodic"
                   THEN SkipRecentDeletes(Tail(pass.todo))
                   ELSE Tail(pass.todo)
           next == [pass EXCEPT !.todo = rest,
                                !.ops = IF created THEN @ + 1 ELSE @,
                                !.failed = @ \/ ~created]
           others == Disturb(RemoveAt(reconPasses, i), created)
       IN /\ CommitVault(w)
          /\ pulled' = IF created THEN pulled \cup {<<path, "">>} ELSE pulled
          /\ unmirrored' = unmirrored
          /\ IF rest = <<>>
             THEN PassReturns(next, others)
             ELSE /\ reconPasses' = [j \in 1..Len(reconPasses) |->
                                        IF j = i THEN next
                                        ELSE IF j < i THEN others[j]
                                        ELSE others[j - 1]]
                  /\ lastDone' = NoPass
                  /\ UNCHANGED <<quietSince, observers>>
    /\ UNCHANGED <<tickedSince, lostEvents, syncRuns, remoteOps, localOps>>

\* the remote client pushes a path; the observer set up by
\* setupMetadataChangeMonitoring calls handleRemotePathChanges(event), which
\* runs up to its await
RemoteInsert(p) ==
    /\ remoteOps < MaxRemoteOps
    /\ p \notin Range(paths)
    /\ remoteOps' = remoteOps + 1
    /\ paths' = Append(paths, p)
    /\ LET handled == observers > 0
           creates == /\ handled
                      /\ p \notin files
                      /\ NotRecent(lastSyncTimestamps[Key("create", p)], RemoteGraceMs)
           pass == [ReconPass("insert", <<p>>, 0) EXCEPT !.second = FALSE]
       IN /\ creates => Len(reconPasses) < MaxReconPasses
          /\ reconPasses' = IF creates
                            THEN Append(Disturb(reconPasses, TRUE), pass)
                            ELSE Disturb(reconPasses, TRUE)
          /\ lostEvents' = IF ~handled /\ syncRuns > 0 THEN 1 ELSE lostEvents
    /\ quietSince' = "none"
    /\ unmirrored' = unmirrored \ {p}
    /\ UNCHANGED <<files, lastSyncTimestamps, now, nonReconcileVars>>
    /\ lastDone' = NoPass
    /\ UNCHANGED <<observers, tickedSince, pulled, syncRuns, localOps>>

\* the remote client removes a path; handleRemotePathChanges(event) acts on
\* a deletion only `if (delta.delete && event.path.length > 0)`, and the path
\* of an event of the top-level array `paths` is empty
RemoteRemove(p) ==
    /\ remoteOps < MaxRemoteOps
    /\ p \in Range(paths)
    /\ remoteOps' = remoteOps + 1
    /\ paths' = RemoveAt(paths, IndexOf(paths, p))
    /\ reconPasses' = Disturb(reconPasses, TRUE)
    /\ lostEvents' = IF observers = 0 /\ syncRuns > 0 THEN 1 ELSE lostEvents
    /\ quietSince' = "none"
    /\ unmirrored' = IF observers > 0 /\ p \in files /\ p \notin Range(paths')
                     THEN unmirrored \cup {p} ELSE unmirrored
    /\ UNCHANGED <<files, lastSyncTimestamps, now, nonReconcileVars>>
    /\ lastDone' = NoPass
    /\ UNCHANGED <<observers, tickedSince, pulled, syncRuns, localOps>>

\* the local user creates a file
LocalCreate(p) ==
    /\ localOps < MaxLocalOps
    /\ p \notin files
    /\ localOps' = localOps + 1
    /\ CommitVault(VaultCreate(World, p))
    /\ reconPasses' = Disturb(reconPasses, TRUE)
    /\ quietSince' = "none"
    /\ lastDone' = NoPass
    /\ UNCHANGED <<observers, tickedSince, unmirrored, pulled, lostEvents,
                   syncRuns, remoteOps>>

\* the local user deletes a file
LocalDelete(p) ==
    /\ localOps < MaxLocalOps
    /\ p \in files
    /\ localOps' = localOps + 1
    /\ CommitVault(VaultDelete(World, p))
    /\ reconPasses' = Disturb(reconPasses, TRUE)
    /\ quietSince' = "none"
    /\ unmirrored' = unmirrored \ {p}
    /\ lastDone' = NoPass
    /\ UNCHANGED <<observers, tickedSince, pulled, lostEvents, syncRuns,
                   remoteOps>>

\* time passes, as long as a recorded operation is within a grace window
ClockAdvances ==
    /\ \E k \in Kinds \X Paths : ~NotRecent(lastSyncTimestamps[k], PeriodicGraceMs)
    /\ now' = now + ClockStepMs
    /\ tickedSince' = TRUE
    /\ reconPasses' = [j \in 1..Len(reconPasses) |->
                          [reconPasses[j] EXCEPT !.afterTick = TRUE]]
    /\ UNCHANGED <<files, paths, lastSyncTimestamps, nonReconcileVars>>
    /\ lastDone' = NoPass
    /\ UNCHANGED <<observers, quietSince, unmirrored, pulled, lostEvents,
                   syncRuns, remoteOps, localOps>>

InitReconcile ==
    /\ ReconcileIdle
    /\ NewerIdle
    /\ now = ClockStepMs
    /\ files \in SUBSET Paths
    /\ paths \in {SetToSeq(ps) : ps \in SUBSET Paths}
    /\ isOnline = TRUE
    /\ connectionStatus = "connected"
    /\ lastSyncTimestamps = [k \in Kinds \X Paths |-> 0]
    /\ syncTimer = FALSE
    /\ mgrOnline = TRUE
    /\ operationQueue = <<>>
    /\ passes = [i \in PassIds |-> IdlePass]
    /\ localStorage = <<>>
    /\ nextId = 0
    /\ restored = {}
    /\ offlineDeleted = {}
    /\ userEvents = 0
    /\ policy = "auto"
    /\ ResolverIdle
    /\ OpenIdle
    /\ SwitchIdle
    /\ RelayIdle
    /\ MergeIdle
    /\ RequestsIdle

NextReconcile ==
    \/ SyncLocalWithMetadata
    \/ PeriodicInterval
    \/ ImmediateSync
    \/ \E i \in ReconIds : PassStep(i)
    \/ \E p \in Paths : RemoteInsert(p)
    \/ \E p \in Paths : RemoteRemove(p)
    \/ \E p \in Paths : LocalCreate(p)
    \/ \E p \in Paths : LocalDelete(p)
    \/ ClockAdvances

SpecReconcile == InitReconcile /\ [][NextReconcile]_vars

\* a client with one note joins a vault whose list is empty, holds that
\* note, or holds another one
InitReconcileFair ==
    /\ InitReconcile
    /\ files = {"a.md"}
    /\ paths \in {<<>>, <<"a.md">>, <<"b.md">>}

\* the first 'sync' of the metadata provider arrives
FirstSync == syncRuns = 0 /\ SyncLocalWithMetadata

\* What the scheduling guarantees: the metadata provider reports 'sync' after
\* connectMetadata, the interval timer keeps firing, a pending
\* vault.create settles, and time passes.
SpecReconcileFair ==
    /\ InitReconcileFair
    /\ [][NextReconcile]_vars
    /\ WF_vars(FirstSync)
    /\ WF_vars(PeriodicInterval)
    /\ \A i \in ReconIds : WF_vars(PassStep(i))
    /\ WF_vars(ClockAdvances)
(***************************************************************************)
(* Properties of the reconciliation.                                       *)
(***************************************************************************)
\* C15 (fresh join): when syncLocalWithMetadata ran with a non-empty local
\* vault and an empty shared list, then at its return the shared list holds
\* every local path and every local file is still there.
C15_FreshJoin ==
    (lastDone.kind = "sync" /\ lastDone.local # {} /\ lastDone.remote = {})
        => /\ lastDone.local \subseteq Range(paths)
           /\ lastDone.local \subseteq files

C15_Witness ==
    /\ lastDone.kind = "sync"
    /\ lastDone.local = Paths
    /\ lastDone.remote = {}
    /\ Range(paths) = Paths
    /\ files = Paths

C18_MirrorsRemoteChanges ==
    [][\A p \in Paths :
         /\ (/\ RemoteInsert(p)
             /\ observers > 0
             /\ p \notin files
             /\ NotRecent(lastSyncTimestamps[Key("create", p)], RemoteGraceMs))
                => \E j \in 1..Len(reconPasses') :
                      /\ reconPasses'[j].kind = "insert"
                      /\ reconPasses'[j].todo = <<p>>
         /\ (/\ RemoteRemove(p)
             /\ observers > 0
             /\ p \in files)
                => \/ p \notin files'
                   \/ \E j \in 1..Len(reconPasses') :
                         reconPasses'[j].kind = "deletions"]_vars

\* C19 (periodic re-diff after a lost event): once a remote change went by
\* without the observer being called, the local file set eventually equals
\* the set of paths of the shared list, and stays equal once no further local
\* or remote operation occurs.
C19_EventuallyConsistent ==
    (lostEvents = 1) ~> [](Range(paths) = files)

C19_Witness ==
    /\ lostEvents = 1
    /\ lastDone.kind = "periodic"
    /\ lastDone.ops > 0
    /\ Range(paths) = files
    /\ files = Paths

\* C20 (serialized reconciliation): at most one pass of syncLocalWithMetadata
\* or performPeriodicSyncCheck is in progress (suspended at an await) at any
\* time.
C20_Serialized ==
    Cardinality({j \in 1..Len(reconPasses) :
                    reconPasses[j].kind \in {"sync", "periodic"}}) <= 1

(***************************************************************************)
(* Connection supervision: statusHandler and connectionCloseHandler, which *)
(* both providers call, the retry timer of scheduleReconnect, reconnect,   *)
(* and the timers that start a reconciliation pass. A provider's websocket *)
(* is none (no provider), connecting, connected, or waiting to retry; it   *)
(* emits 'connected' when it opens, 'connection-close' when it closes      *)
(* (followed by 'disconnected' if it had been open) and 'connecting' when  *)
(* it tries again.                                                         *)
(***************************************************************************)
MaxRetries == 5
RetryDelay == 1000

\* the supervisor's fields as one value; gaveUp: scheduleReconnect has refused
\* to arm a timer since the last 'connected'; scheduled: the timers it has
\* armed since the last 'connected'
Supervisor ==
    [retries |-> connectionRetries, timeout |-> retryTimeout,
     text |-> statusText, immediate |-> immediateSyncTimer,
     published |-> published, gaveUp |-> gaveUp, scheduled |-> scheduledSince]

\* A mutant of the delay: linear in the attempt number.
DelayLinear(k) == RetryDelay * (k + 1)

\* this.retryDelay * Math.pow(2, this.connectionRetries)
Delay(k) == RetryDelay * 2^k

\* scheduleReconnect()
ScheduleReconnect(u) ==
    IF u.retries >= MaxRetries
    THEN [u EXCEPT !.text = "connection failed", !.gaveUp = TRUE]
    ELSE [u EXCEPT !.timeout = Delay(u.retries),
                   !.retries = @ + 1,
                   !.text = "reconnecting",
                   !.scheduled = @ + 1]

\* A mutant of the publication: the metadata provider is left out.
EnsureDocumentAwareness(u) ==
    [u EXCEPT !.published = {p \in {"document"} : wsState[p] # "none"}]

\* ensureAwarenessState()
EnsureAwarenessState(u) ==
    [u EXCEPT !.published = {p \in Providers : wsState[p] # "none"}]

\* scheduleImmediateSync()
ScheduleImmediateSync(u) ==
    EnsureAwarenessState([u EXCEPT !.immediate = TRUE])

\* statusHandler(event): its retry bookkeeping and the status bar (the state
\* it shares with the offline queue is StatusHandler's)
SuperviseStatus(w, u, status) ==
    LET wasOnline == w.isOnline
        previousStatus == w.connectionStatus
        u1 == CASE status = "connected" ->
                     LET a == [u EXCEPT !.retries = 0, !.timeout = 0,
                                        !.text = "connected",
                                        !.gaveUp = FALSE, !.scheduled = 0]
                     IN IF ~wasOnline THEN ScheduleImmediateSync(a) ELSE a
                 [] status = "disconnected" /\ previousStatus # "disconnected" ->
                     LET a == [u EXCEPT !.text = "disconnected"]
                     IN IF previousStatus \in {"connected", "connecting"}
                        THEN ScheduleReconnect(a) ELSE a
                 [] status = "connecting" /\ previousStatus # "connecting" ->
                     [u EXCEPT !.text = "connecting..."]
                 [] OTHER -> u
        w1 == StatusHandler(w, status)
    IN IF ~w1.isOnline /\ Len(w1.queue) > 0
       THEN [u1 EXCEPT !.text = "offline (queued)"]
       ELSE u1

\* connectionCloseHandler(event): the status bar
SuperviseClose(u) == [u EXCEPT !.text = "disconnected"]

\* the state of the client after a handler of this component
CommitSupervisor(w, u) ==
    /\ ~w.overflow
    /\ files' = w.files
    /\ paths' = w.paths
    /\ isOnline' = w.isOnline
    /\ connectionStatus' = w.connectionStatus
    /\ lastSyncTimestamps' = w.lastSync
    /\ syncTimer' = w.syncTimer
    /\ mgrOnline' = w.mgrOnline
    /\ operationQueue' = w.queue
    /\ passes' = w.passes
    /\ localStorage' = w.store
    /\ nextId' = w.nextId
    /\ restored' = w.restored
    /\ offlineDeleted' = w.offlineDeleted
    /\ connectionRetries' = u.retries
    /\ retryTimeout' = u.timeout
    /\ statusText' = u.text
    /\ immediateSyncTimer' = u.immediate
    /\ published' = u.published
    /\ gaveUp' = u.gaveUp
    /\ scheduledSince' = u.scheduled
    /\ UNCHANGED nonSupervisorVars

\* the websocket of provider p opens: 'status' connected
ProviderOpens(p) ==
    /\ wsState[p] = "connecting"
    /\ wsState' = [wsState EXCEPT ![p] = "connected"]
    /\ owedPass' = (owedPass \/ connectionStatus # "connected")
    /\ CommitSupervisor(StatusHandler(World, "connected"),
                        SuperviseStatus(World, Supervisor, "connected"))

\* the websocket of provider p closes: 'connection-close', and 'status'
\* disconnected if it had been open
ProviderCloses(p) ==
    /\ wsState[p] \in {"connecting", "connected"}
    /\ wsState' = [wsState EXCEPT ![p] = "waiting"]
    /\ UNCHANGED owedPass
    /\ LET w1 == ConnectionCloseHandler(World)
           u1 == SuperviseClose(Supervisor)
       IN IF wsState[p] = "connected"
          THEN CommitSupervisor(StatusHandler(w1, "disconnected"),
                                SuperviseStatus(w1, u1, "disconnected"))
          ELSE CommitSupervisor(w1, u1)

\* provider p tries again after its own backoff: 'status' connecting
ProviderRetries(p) ==
    /\ wsState[p] = "waiting"
    /\ wsState' = [wsState EXCEPT ![p] = "connecting"]
    /\ UNCHANGED owedPass
    /\ CommitSupervisor(StatusHandler(World, "connecting"),
                        SuperviseStatus(World, Supervisor, "connecting"))

\* the retry timer fires: reconnect() replaces the metadata provider (its
\* handlers are attached after its first 'connecting') and leaves the
\* provider of the open file; `thrown`: where reconnect() threw, if it did
\* (connectMetadata throws at the provider's construction, after it has made
\* the metadata document)
RetryTimerFires(thrown) ==
    /\ retryTimeout # 0
    /\ wsState' = [wsState EXCEPT !["metadata"] =
                      IF thrown = "connectMetadata" THEN "none" ELSE "connecting"]
    /\ UNCHANGED owedPass
    /\ LET u == [Supervisor EXCEPT !.timeout = 0]
       IN CommitSupervisor(World,
                           IF thrown = "nothing" THEN u ELSE ScheduleReconnect(u))

\* the 1 s timer of statusHandler fires: performPeriodicSyncCheck()
StatusTimerFires ==
    /\ syncTimer
    /\ UNCHANGED wsState
    /\ owedPass' = FALSE
    /\ CommitSupervisor(PerformPeriodicSyncCheck([World EXCEPT !.syncTimer = FALSE]),
                        Supervisor)

\* the 2 s timer of scheduleImmediateSync fires
ImmediateSyncFires ==
    /\ immediateSyncTimer
    /\ UNCHANGED wsState
    /\ owedPass' = (owedPass /\ ~isOnline)
    /\ CommitSupervisor(IF isOnline THEN PerformPeriodicSyncCheck(World) ELSE World,
                        [Supervisor EXCEPT !.immediate = FALSE])

\* the client after onload: connectMetadata has made the metadata provider,
\* a file may be open
InitSupervisor ==
    /\ connectionRetries = 0
    /\ retryTimeout = 0
    /\ statusText = "connecting"
    /\ immediateSyncTimer = FALSE
    /\ wsState \in {[p \in Providers |-> IF p = "metadata" THEN "connecting" ELSE d] :
                      d \in {"none", "connecting"}}
    /\ published = {}
    /\ owedPass = FALSE
    /\ gaveUp = FALSE
    /\ scheduledSince = 0
    /\ now = ClockStepMs
    /\ files = {"a.md"}
    /\ paths = <<>>
    /\ isOnline = FALSE
    /\ connectionStatus = "disconnected"
    /\ lastSyncTimestamps = [k \in Kinds \X Paths |-> 0]
    /\ syncTimer = FALSE
    /\ mgrOnline = FALSE
    /\ operationQueue = <<>>
    /\ passes = [i \in PassIds |-> IdlePass]
    /\ localStorage = <<>>
    /\ nextId = 0
    /\ restored = {}
    /\ offlineDeleted = {}
    /\ userEvents = 0
    /\ policy = "auto"
    /\ ResolverIdle
    /\ OpenIdle
    /\ SwitchIdle
    /\ RelayIdle
    /\ MergeIdle
    /\ RequestsIdle
    /\ ReconcileIdle
    /\ LimiterIdle
    /\ RegistryIdle
    /\ SeedIdle
    /\ LastIdle

Thrown == {"nothing", "connectMetadata", "handleFileOpenInternal"}

NextSupervisor ==
    \/ \E p \in Providers : ProviderOpens(p)
    \/ \E p \in Providers : ProviderCloses(p)
    \/ \E p \in Providers : ProviderRetries(p)
    \/ \E thrown \in Thrown : RetryTimerFires(thrown)
    \/ StatusTimerFires
    \/ ImmediateSyncFires

SpecSupervisor == InitSupervisor /\ [][NextSupervisor]_vars

SpecSupervisorFair ==
    SpecSupervisor /\ WF_vars(StatusTimerFires) /\ WF_vars(ImmediateSyncFires)

BecomesConnected == connectionStatus # "connected" /\ connectionStatus' = "connected"

\* C21: every transition from disconnected to connected arms the immediate
\* reconciliation pass and publishes the local awareness record on the
\* document provider and on the metadata provider (each one that exists), and
\* the pass then runs.
C21_ReconnectResyncs ==
    /\ [][BecomesConnected =>
            /\ immediateSyncTimer' /\ syncTimer' /\ owedPass'
            /\ published' = {p \in Providers : wsState'[p] # "none"}]_vars
    /\ (owedPass ~> ~owedPass)

C21_Witness ==
    /\ connectionStatus = "connected"
    /\ owedPass
    /\ published = Providers
    /\ gaveUp = FALSE /\ scheduledSince = 0 /\ statusText = "connected"

\* C22: connectionRetries never exceeds maxRetries, and once scheduleReconnect
\* has given up no timer is armed, "connection failed" stays shown and no
\* provider makes a new attempt.
C22_StopsRetrying ==
    [][/\ connectionRetries' <= MaxRetries
       /\ gaveUp =>
            /\ retryTimeout' = 0
            /\ statusText' = "connection failed"
            /\ \A p \in Providers :
                 wsState'[p] = "connecting" => wsState[p] = "connecting"]_vars

\* C23: the timer armed as the k-th since the last connection (k = 0, 1, ...)
\* has delay retryDelay x 2^k, one of 1 s, 2 s, 4 s, 8 s, 16 s, and every
\* 'connected' resets the attempt counter to zero.
C23_Backoff ==
    /\ [](retryTimeout # 0 =>
            /\ scheduledSince >= 1
            /\ retryTimeout = RetryDelay * 2^(scheduledSince - 1)
            /\ retryTimeout \in {1000, 2000, 4000, 8000, 16000})
    /\ [][(\E p \in Providers : wsState[p] = "connecting" /\ wsState'[p] = "connected")
             => connectionRetries' = 0 /\ retryTimeout' = 0]_vars

C23_Witness ==
    /\ retryTimeout = 16000
    /\ scheduledSince = 5
    /\ connectionRetries = MaxRetries

(***************************************************************************)
(* Rate limiting on the server: SecurityValidator.checkRateLimit, called   *)
(* with a map, an identifier, a limit and a window, and                    *)
(* VaultManager.checkRateLimit, which picks the limit and the map from the *)
(* category. SpecValidator calls the first with one limit and one window   *)
(* (as security-test.js does), SpecLimiter the second with every category. *)
(***************************************************************************)
MaxLimiterCalls == 12
MaxLimiterTicks == 2
MaxVaultChecks == 5
BackoffCap == 32

Categories == {"default", "connection", "message", "auth"}

\* const limits = {...}
Limits ==
    [default    |-> [maxRequests |-> 10,  windowMs |-> 1000],
     connection |-> [maxRequests |-> 5,   windowMs |-> 60000],
     message    |-> [maxRequests |-> 100, windowMs |-> 60000],
     auth       |-> [maxRequests |-> 3,   windowMs |-> 60000]]

\* type === 'connection' ? this.ipRateLimits : this.connectionRateLimits
MapOf(type) == IF type = "connection" THEN "ip" ELSE "connection"

\* the limits and windows the validator is called with directly
TestLimits ==
    {[maxRequests |-> n, windowMs |-> w] : n \in {1, 3, 5, 10}, w \in {1000, 60000}}

LimiterSteps == {1000, 60000}

\* A mutant of the multiplier: it does not grow.
BackoffFlat(violations) == 2

\* Math.min(Math.pow(2, record.violations), 32)
Backoff(violations) ==
    IF 2^violations < BackoffCap THEN 2^violations ELSE BackoffCap

\* A mutant of the limit test: one request more is let through.
OverLimit(count, maxRequests) == count > maxRequests

\* record.count >= maxRequests
LimitExceeded(count, maxRequests) == count >= maxRequests

\* SecurityValidator.checkRateLimit(rateLimitMap, identifier, maxRequests, windowMs)
SecurityCheckRateLimit(rateLimitMap, identifier, maxRequests, windowMs, nowMs) ==
    LET record == IF rateLimitMap[identifier].present
                  THEN rateLimitMap[identifier]
                  ELSE [present |-> TRUE, count |-> 0,
                        resetTime |-> nowMs + windowMs, violations |-> 0]
        fresh == IF nowMs >= record.resetTime
                 THEN [record EXCEPT !.count = 0,
                                     !.resetTime = nowMs + windowMs,
                                     !.violations = IF @ > 0 THEN @ - 1 ELSE 0]
                 ELSE record
    IN IF LimitExceeded(fresh.count, maxRequests)
       THEN LET violated == [fresh EXCEPT !.violations = @ + 1]
            IN [allowed |-> FALSE,
                retryAfter |-> windowMs * Backoff(violated.violations),
                map |-> [rateLimitMap EXCEPT ![identifier] = violated]]
       ELSE [allowed |-> TRUE,
             retryAfter |-> 0,
             map |-> [rateLimitMap EXCEPT ![identifier] = [fresh EXCEPT !.count = @ + 1]]]

\* history of the calls on one identifier of one map: n counts the calls of
\* one category made on a fresh identifier before its first window ends (0
\* once another category or a later time has come in); retry is the
\* retryAfter of the last call if it was rejected and `at` the time of that
\* call; violated: a call was rejected since the window was last reset
NextStreak(st, wasPresent, type, windowMs, outcome) ==
    LET n == IF ~wasPresent THEN 1
             ELSE IF st.n > 0 /\ st.type = type /\ limiterNow < st.until
             THEN st.n + 1
             ELSE 0
    IN [type |-> type,
        n |-> n,
        until |-> IF ~wasPresent THEN limiterNow + windowMs ELSE st.until,
        retry |-> IF outcome.allowed THEN 0 ELSE outcome.retryAfter,
        at |-> IF outcome.allowed THEN 0 ELSE limiterNow,
        violated |-> ~outcome.allowed]

\* if (now >= record.resetTime), on a record the map holds
WindowExpired(record, nowMs) == record.present /\ nowMs >= record.resetTime

\* a call of the validator on map m, and what it returned
Checked(m, identifier, type, limit) ==
    LET outcome == SecurityCheckRateLimit(rateLimitMaps[m], identifier,
                                         limit.maxRequests, limit.windowMs, limiterNow)
        record == rateLimitMaps[m][identifier]
        st == [NextStreak(streak[m][identifier], record.present,
                          type, limit.windowMs, outcome)
               EXCEPT !.violated = \/ @
                                   \/ /\ record.present
                                      /\ ~WindowExpired(record, limiterNow)
                                      /\ streak[m][identifier].violated]
    IN /\ limiterCalls' = limiterCalls + 1
       /\ rateLimitMaps' = [rateLimitMaps EXCEPT ![m] = outcome.map]
       /\ streak' = [streak EXCEPT ![m][identifier] = st]
       /\ lastCall' = [id |-> identifier, type |-> type,
                       allowed |-> outcome.allowed, retryAfter |-> outcome.retryAfter,
                       nth |-> st.n,
                       prevRetry |-> IF streak[m][identifier].type = type
                                     THEN streak[m][identifier].retry ELSE 0,
                       windowMs |-> limit.windowMs,
                       maxRequests |-> limit.maxRequests]
       /\ UNCHANGED <<limiterNow, limiterTicks, testLimit, nonLimiterVars>>

\* VaultManager.checkRateLimit(identifier, type)
VaultCheckRateLimit(identifier, type) ==
    /\ limiterCalls < MaxVaultChecks
    /\ Checked(MapOf(type), identifier, type, Limits[type])

\* security.checkRateLimit(rateLimitMap, identifier, N, windowMs) on a map of
\* the caller
ValidatorCall(identifier) ==
    /\ limiterCalls < MaxLimiterCalls
    /\ Checked("connection", identifier, "test", testLimit)

\* time passes on the server
LimiterClock(dt) ==
    /\ limiterTicks < MaxLimiterTicks
    /\ limiterTicks' = limiterTicks + 1
    /\ limiterNow' = limiterNow + dt
    /\ UNCHANGED <<rateLimitMaps, lastCall, streak, limiterCalls, testLimit,
                   nonLimiterVars>>

EarlierIdle ==
    /\ QueueIdle
    /\ policy = "auto"
    /\ ResolverIdle
    /\ OpenIdle
    /\ SwitchIdle
    /\ RelayIdle

InitLimiter ==
    /\ EarlierIdle
    /\ MergeIdle
    /\ RequestsIdle
    /\ ReconcileIdle
    /\ SupervisorIdle
    /\ LimiterIdle
    /\ RegistryIdle
    /\ SeedIdle
    /\ LastIdle

InitValidator ==
    /\ EarlierIdle
    /\ MergeIdle
    /\ RequestsIdle
    /\ ReconcileIdle
    /\ SupervisorIdle
    /\ rateLimitMaps = [m \in RateMaps |-> [i \in LimiterIds |-> NoRate]]
    /\ limiterNow = 0
    /\ lastCall = NoCall
    /\ streak = [m \in RateMaps |-> [i \in LimiterIds |-> NoStreak]]
    /\ limiterCalls = 0
    /\ limiterTicks = 0
    /\ testLimit \in TestLimits
    /\ RegistryIdle
    /\ SeedIdle
    /\ LastIdle

NextLimiter ==
    \/ \E identifier \in LimiterIds, type \in Categories :
         VaultCheckRateLimit(identifier, type)
    \/ \E dt \in LimiterSteps : LimiterClock(dt)

NextValidator ==
    \/ \E identifier \in LimiterIds : ValidatorCall(identifier)
    \/ \E dt \in LimiterSteps : LimiterClock(dt)

SpecLimiter == InitLimiter /\ [][NextLimiter]_vars

SpecValidator == InitValidator /\ [][NextValidator]_vars

\* C24: of the calls made with limit N on a fresh identifier within one
\* window, exactly the first N are allowed; the (N+1)th (and any later one)
\* is rejected with retryAfter > 0.
C24_RateLimitBoundary ==
    lastCall.nth > 0 =>
        /\ lastCall.allowed <=> lastCall.nth <= lastCall.maxRequests
        /\ ~lastCall.allowed => lastCall.retryAfter > 0

C24_Witness ==
    /\ lastCall.nth = lastCall.maxRequests + 1
    /\ ~lastCall.allowed
    /\ lastCall.maxRequests = 10

\* C25 as stated: a rejected call that follows a rejected call on the same
\* identifier returns a strictly greater retryAfter, however many violations
\* came before.
C25_StrictlyIncreasing ==
    (~lastCall.allowed /\ lastCall.prevRetry > 0)
        => lastCall.retryAfter > lastCall.prevRetry

\* C25 amended: a rejected call that follows a rejected call returns twice
\* the previous retryAfter until that has reached 32 x windowMs (the fifth
\* consecutive violation); from then on it returns the same value.
C25_IncreasingToCap ==
    (~lastCall.allowed /\ lastCall.prevRetry > 0)
        => IF lastCall.prevRetry < BackoffCap * lastCall.windowMs
           THEN lastCall.retryAfter = 2 * lastCall.prevRetry
           ELSE lastCall.retryAfter = lastCall.prevRetry

C25_Witness ==
    /\ ~lastCall.allowed
    /\ lastCall.prevRetry = BackoffCap * lastCall.windowMs
    /\ lastCall.retryAfter = lastCall.prevRetry

\* the record VaultManager.checkRateLimit(identifier, type) consults
Consulted(type, identifier) == rateLimitMaps[MapOf(type)][identifier]

\* C26: a call checkRateLimit(x, c1) leaves the count, window and violation
\* counter consulted by checkRateLimit(x, c2) unchanged, for every other
\* category c2.
C26_CategoriesIndependent ==
    [][\A identifier \in LimiterIds, c2 \in Categories :
         (limiterCalls' # limiterCalls /\ lastCall'.id = identifier /\ lastCall'.type # c2)
             => Consulted(c2, identifier)' = Consulted(c2, identifier)]_vars

(***************************************************************************)
(* The server's registry: the wss 'connection' handler with its checks,    *)
(* registerVault, registerSession and the per-IP connection count, the     *)
(* 'message', 'close' and 'error' handlers of an accepted connection, and  *)
(* the cleanup sweep. Identifiers are sequences of characters; a parameter *)
(* absent from the URL is NullParam.                                       *)
(***************************************************************************)
MaxAttempts == 3
MaxRegistryTicks == 1
MaxMessages == 1
MaxVaultIdLength == 128
MaxUserIdLength == 64
MaxConnectionsPerIp == 50
SessionTimeout == 86400000
RateLimitTimeout == 3600000

Param(t) == [given |-> TRUE, text |-> t]

\* VAULT_ID_REGEX and USER_ID_REGEX: the characters they admit
Alphanumeric == {"a", "b", "m", "n", "o", "s", "u", "v", "y", "1"}
VaultIdChars == Alphanumeric \cup {"-", "_"}
UserIdChars == Alphanumeric \cup {"-", "_", ".", "@"}

InChars(c, allowed) == c \in allowed
InVaultIdChars(c) == InChars(c, VaultIdChars)
InUserIdChars(c) == InChars(c, UserIdChars)

\* the values of the URL parameters tried: absent, well-formed, with a
\* character outside the set, too long
VaultIdInputs ==
    {NullParam,
     Param(<<"v", "-", "1">>),
     Param(<<"a", "@", "b">>),
     Param([i \in 1..(MaxVaultIdLength + 1) |-> "a"])}

UserIdInputs ==
    {NullParam,
     Param(<<"a", "@", "b">>),
     Param(<<"<", "v", ">">>),
     Param([i \in 1..(MaxUserIdLength + 1) |-> "a"])}

\* what the caller sent, judged on the text alone
Missing(param) == ~param.given \/ param.text = <<>>
Malformed(param, allowed, maxLength) ==
    /\ ~Missing(param)
    /\ \/ Len(param.text) > maxLength
       \/ \E i \in 1..Len(param.text) : param.text[i] \notin allowed
Sent(ip, vaultId, userId) ==
    [ip |-> ip,
     missing |-> Missing(vaultId) \/ Missing(userId),
     malformed |-> \/ Malformed(vaultId, VaultIdChars, MaxVaultIdLength)
                   \/ Malformed(userId, UserIdChars, MaxUserIdLength)]

Anonymous == Param(<<"a", "n", "o", "n", "y", "m", "o", "u", "s">>)

\* A mutant of the validation: the character set is not tested.
ValidateVaultIdAnyChars(vaultId) ==
    IF ~vaultId.given \/ vaultId.text = <<>> THEN NullParam
    ELSE IF Len(vaultId.text) > MaxVaultIdLength THEN NullParam
    ELSE vaultId

\* SecurityValidator.validateVaultId
ValidateVaultId(vaultId) ==
    IF ~vaultId.given \/ vaultId.text = <<>> THEN NullParam
    ELSE IF Len(vaultId.text) > MaxVaultIdLength THEN NullParam
    ELSE IF \E i \in 1..Len(vaultId.text) : ~InVaultIdChars(vaultId.text[i]) THEN NullParam
    ELSE Param(SelectSeq(vaultId.text, InVaultIdChars))

\* SecurityValidator.validateUserId
ValidateUserId(userId) ==
    IF ~userId.given \/ userId.text = <<>> THEN Anonymous
    ELSE IF Len(userId.text) > MaxUserIdLength THEN NullParam
    ELSE IF \E i \in 1..Len(userId.text) : ~InUserIdChars(userId.text[i]) THEN NullParam
    ELSE Param(SelectSeq(userId.text, InUserIdChars))

\* the registry as one value
Registry ==
    [sessions |-> registrySessions, vaults |-> registryVaults,
     count |-> connectionCount, limits |-> sessionRateLimits,
     ipLimits |-> ipRateLimits]

\* registerVault(vaultId, ownerId): a vault is <<vaultId, owner>>
RegisterVault(g, vaultId, ownerId) ==
    LET validVaultId == ValidateVaultId(vaultId)
        validOwnerId == ValidateUserId(ownerId)
    IN IF validVaultId = NullParam \/ validOwnerId = NullParam
       THEN [ok |-> FALSE, g |-> g]
       ELSE [ok |-> TRUE,
             g |-> IF \E v \in g.vaults : v[1] = validVaultId
                   THEN g
                   ELSE [g EXCEPT !.vaults = @ \cup {<<validVaultId, validOwnerId>>}]]

\* registerSession(connectionId, vaultId, userId, ipAddress)
RegisterSession(g, connectionId, vaultId, userId, ipAddress) ==
    LET validVaultId == ValidateVaultId(vaultId)
        validUserId == ValidateUserId(userId)
    IN IF validVaultId = NullParam \/ validUserId = NullParam
       THEN [ok |-> FALSE, g |-> g]
       ELSE [ok |-> TRUE,
             g |-> [g EXCEPT !.sessions[connectionId] =
                      [present |-> TRUE, vaultId |-> validVaultId,
                       userId |-> validUserId, lastActivity |-> registryNow,
                       ipAddress |-> ipAddress]]]

\* A mutant of the cleanup: the rate-limit record is kept.
CleanupSessionOnly(g, connectionId) ==
    LET session == g.sessions[connectionId]
        g1 == IF session.present /\ g.count[session.ipAddress] > 0
              THEN [g EXCEPT !.count[session.ipAddress] = @ - 1]
              ELSE g
    IN [g1 EXCEPT !.sessions[connectionId] = NoSession]

\* cleanupSession(connectionId)
CleanupSession(g, connectionId) ==
    LET session == g.sessions[connectionId]
        g1 == IF session.present /\ g.count[session.ipAddress] > 0
              THEN [g EXCEPT !.count[session.ipAddress] = @ - 1]
              ELSE g
    IN [g1 EXCEPT !.sessions[connectionId] = NoSession,
                  !.limits[connectionId] = NoRate]

RECURSIVE CleanupSessions(_, _)
CleanupSessions(g, ids) ==
    IF ids = {} THEN g
    ELSE LET c == CHOOSE c \in ids : TRUE
         IN CleanupSessions(CleanupSession(g, c), ids \ {c})

\* cleanup(): sessions idle for more than 24 h, rate-limit records whose
\* window ended more than 1 h ago
Cleanup(g) ==
    LET old == {c \in ConnIds : g.sessions[c].present
                                /\ registryNow - g.sessions[c].lastActivity > SessionTimeout}
        g1 == CleanupSessions(g, old)
        Kept(r) == IF r.present /\ registryNow - r.resetTime > RateLimitTimeout
                   THEN NoRate ELSE r
    IN [g1 EXCEPT !.limits = [k \in DOMAIN @ |-> Kept(@[k])],
                  !.ipLimits = [k \in DOMAIN @ |-> Kept(@[k])]]

\* the 'connection' handler up to the parameters: the connection limit and
\* the connection rate limit of the IP, the Origin header, the token
Admission(g, ip, originOk, token) ==
    IF ~(g.count[ip] < MaxConnectionsPerIp)
    THEN [ok |-> FALSE, g |-> g]
    ELSE LET rate == SecurityCheckRateLimit(g.ipLimits, ip, Limits.connection.maxRequests,
                                            Limits.connection.windowMs, registryNow)
             g1 == [g EXCEPT !.ipLimits = rate.map]
         IN IF ~rate.allowed THEN [ok |-> FALSE, g |-> g1]
            ELSE IF ~originOk THEN [ok |-> FALSE, g |-> g1]
            ELSE IF token = "none" THEN [ok |-> TRUE, g |-> g1]
            ELSE LET auth == SecurityCheckRateLimit(g1.limits, ip, Limits.auth.maxRequests,
                                                    Limits.auth.windowMs, registryNow)
                     g2 == [g1 EXCEPT !.limits = auth.map]
                 IN [ok |-> auth.allowed /\ token = "valid", g |-> g2]

\* A mutant of the handler: the connection is counted before its parameters
\* are looked at.
AcceptCounted(g, id, ip, vaultId, userId) ==
    LET params == [vaultId |-> ValidateVaultId(vaultId), userId |-> ValidateUserId(userId)]
        g0 == [g EXCEPT !.count[ip] = @ + 1]
    IN IF params.vaultId = NullParam \/ params.userId = NullParam
       THEN [outcome |-> "closed", code |-> 1008, g |-> g0]
       ELSE LET v == RegisterVault(g0, params.vaultId, params.userId)
            IN IF ~v.ok THEN [outcome |-> "closed", code |-> 1008, g |-> v.g]
               ELSE LET r == RegisterSession(v.g, id, params.vaultId, params.userId, ip)
                    IN [outcome |-> IF r.ok THEN "accepted" ELSE "closed",
                        code |-> IF r.ok THEN 0 ELSE 1008, g |-> r.g]

\* the 'connection' handler from the parameters on; id: the value of
\* generateSecureId(), 128 random bits, here an unused connection id
Accept(g, id, ip, vaultId, userId) ==
    LET params == [vaultId |-> ValidateVaultId(vaultId), userId |-> ValidateUserId(userId)]
    IN IF params.vaultId = NullParam \/ params.userId = NullParam
       THEN [outcome |-> "closed", code |-> 1008, g |-> g]
       ELSE LET v == RegisterVault(g, params.vaultId, params.userId)
            IN IF ~v.ok THEN [outcome |-> "closed", code |-> 1008, g |-> v.g]
               ELSE LET r == RegisterSession(v.g, id, params.vaultId, params.userId, ip)
                    IN IF ~r.ok THEN [outcome |-> "closed", code |-> 1008, g |-> r.g]
                       ELSE [outcome |-> "accepted", code |-> 0,
                             g |-> [r.g EXCEPT !.count[ip] = @ + 1]]

CommitRegistry(g) ==
    /\ registrySessions' = g.sessions
    /\ registryVaults' = g.vaults
    /\ connectionCount' = g.count
    /\ sessionRateLimits' = g.limits
    /\ ipRateLimits' = g.ipLimits
    /\ UNCHANGED <<established, nonRegistryVars>>

\* wss.on('connection')
Connection(ip, vaultId, userId, originOk, token) ==
    /\ attempts < MaxAttempts
    /\ originOk \/ token = "none"     \* the token is not read after a bad Origin
    /\ \E adm \in {Admission(Registry, ip, originOk, token)} :
         IF ~adm.ok
         THEN /\ CommitRegistry(adm.g)
              /\ lastAttempt' = [sent |-> Sent(ip, vaultId, userId),
                                 outcome |-> "refused", code |-> 1008, connectionId |-> "none"]
              /\ UNCHANGED connState
         ELSE \E i \in 1..MaxConns :
                /\ connState[ConnSeq[i]] = "none"
                /\ \A j \in 1..(i - 1) : connState[ConnSeq[j]] # "none"
                /\ \E id \in {ConnSeq[i]} :
                   \E acc \in {Accept(adm.g, id, ip, vaultId, userId)} :
                      /\ CommitRegistry(acc.g)
                      /\ lastAttempt' = [sent |-> Sent(ip, vaultId, userId),
                                         outcome |-> acc.outcome, code |-> acc.code,
                                         connectionId |-> IF acc.outcome = "accepted"
                                                          THEN id ELSE "none"]
                      /\ connState' = IF acc.outcome = "accepted"
                                      THEN [connState EXCEPT ![id] = "open"]
                                      ELSE connState
    /\ attempts' = attempts + 1
    /\ lastSweep' = {}
    /\ UNCHANGED <<registryNow, registryTicks, messages>>

\* conn.on('message'), and the wrapped conn.send: the message rate limit of
\* the connection, then updateActivity
Message(c) ==
    /\ connState[c] = "open"
    /\ messages < MaxMessages
    /\ messages' = messages + 1
    /\ LET rate == SecurityCheckRateLimit(sessionRateLimits, c, Limits.message.maxRequests,
                                          Limits.message.windowMs, registryNow)
           g == [Registry EXCEPT !.limits = rate.map]
       IN CommitRegistry(IF rate.allowed /\ g.sessions[c].present
                         THEN [g EXCEPT !.sessions[c].lastActivity = registryNow]
                         ELSE g)
    /\ lastSweep' = {}
    /\ UNCHANGED <<registryNow, registryTicks, connState, attempts, lastAttempt>>

\* conn.on('error'); the socket is closed afterwards
ConnError(c) ==
    /\ connState[c] = "open"
    /\ connState' = [connState EXCEPT ![c] = "errored"]
    /\ CommitRegistry(CleanupSession(Registry, c))
    /\ lastSweep' = {}
    /\ UNCHANGED <<registryNow, registryTicks, attempts, lastAttempt, messages>>

\* conn.on('close')
ConnClose(c) ==
    /\ connState[c] \in {"open", "errored"}
    /\ connState' = [connState EXCEPT ![c] = "closed"]
    /\ CommitRegistry(CleanupSession(Registry, c))
    /\ lastSweep' = {}
    /\ UNCHANGED <<registryNow, registryTicks, attempts, lastAttempt, messages>>

\* the 5 min interval: vaultManager.cleanup(); lastSweep: the sessions it
\* removed
Sweep ==
    /\ \E g \in {Cleanup(Registry)} :
         /\ g # Registry \/ lastSweep # {}
         /\ CommitRegistry(g)
         /\ lastSweep' = {c \in ConnIds : registrySessions[c].present
                                          /\ ~g.sessions[c].present}
    /\ UNCHANGED <<registryNow, registryTicks, connState, attempts, lastAttempt, messages>>

RegistrySteps == {90000000}

\* time passes on the server
RegistryClock(dt) ==
    /\ registryTicks < MaxRegistryTicks
    /\ registryTicks' = registryTicks + 1
    /\ registryNow' = registryNow + dt
    /\ lastSweep' = {}
    /\ UNCHANGED <<registrySessions, registryVaults, connectionCount, sessionRateLimits,
                   ipRateLimits, connState, attempts, lastAttempt, messages,
                   established, nonRegistryVars>>

\* The sessions of the connections that were accepted earlier and stay open
\* and active throughout (their messages keep lastActivity fresh, so the
\* sweep leaves them alone): one short of the limit from one address, none
\* from the other. They joined a vault of their own.
Established == [ip \in Ips |-> IF ip = "10.0.0.1" THEN MaxConnectionsPerIp - 1 ELSE 0]
EstablishedVault == <<Param(<<"v", "-", "0">>), Anonymous>>

InitRegistry ==
    /\ EarlierIdle
    /\ MergeIdle
    /\ RequestsIdle
    /\ ReconcileIdle
    /\ SupervisorIdle
    /\ LimiterIdle
    /\ SeedIdle
    /\ LastIdle
    /\ established = Established
    /\ connectionCount = established
    /\ registryVaults = {EstablishedVault}
    /\ registryNow = 0
    /\ registrySessions = [c \in ConnIds |-> NoSession]
    /\ sessionRateLimits = [k \in ConnIds \cup Ips |-> NoRate]
    /\ ipRateLimits = [ip \in Ips |-> NoRate]
    /\ connState = [c \in ConnIds |-> "none"]
    /\ attempts = 0
    /\ lastAttempt = NoAttempt
    /\ lastSweep = {}
    /\ registryTicks = 0
    /\ messages = 0

Tokens == {"none", "valid", "invalid"}

NextRegistry ==
    \/ \E ip \in Ips, vaultId \in VaultIdInputs, userId \in UserIdInputs,
          originOk \in BOOLEAN, token \in Tokens :
         Connection(ip, vaultId, userId, originOk, token)
    \/ \E c \in ConnIds : Message(c)
    \/ \E c \in ConnIds : ConnError(c)
    \/ \E c \in ConnIds : ConnClose(c)
    \/ Sweep
    \/ \E dt \in RegistrySteps : RegistryClock(dt)

SpecRegistry == InitRegistry /\ [][NextRegistry]_vars

\* C27: a connection whose vaultId or userId is missing or fails the format
\* validation is closed with code 1008, and the sessions, the vaults and the
\* per-IP connection count are as before it.
C27_RejectedBeforeState ==
    [][(attempts' # attempts
        /\ (lastAttempt'.sent.missing \/ lastAttempt'.sent.malformed))
          => /\ lastAttempt'.outcome # "accepted"
             /\ lastAttempt'.code = 1008
             /\ UNCHANGED <<registrySessions, registryVaults, connectionCount>>]_vars

\* C28: an accepted connection has a session; once its close or error has
\* been handled neither the sessions nor the per-connection rate limits hold
\* an entry for it; and a session is removed only by the close or error of
\* its connection or by the cleanup sweep.
C28_SessionLifetime ==
    /\ [](\A c \in ConnIds :
            connState[c] \in {"errored", "closed"}
                => ~registrySessions[c].present /\ ~sessionRateLimits[c].present)
    /\ [][\A c \in ConnIds :
            /\ (connState[c] = "none" /\ connState'[c] = "open")
                  => registrySessions'[c].present
            /\ (registrySessions[c].present /\ ~registrySessions'[c].present)
                  => (connState'[c] \in {"errored", "closed"} \/ c \in lastSweep')]_vars

C28_Witness ==
    /\ connState["c1"] = "closed"
    /\ connState["c2"] = "none"
    /\ messages > 0
    /\ ~registrySessions["c1"].present
    /\ ~sessionRateLimits["c1"].present

(***************************************************************************)
(* Seeding a document: two clients open the same document, which the relay *)
(* does not hold yet. A shared text is the set of the inserted items (each *)
(* client inserts at most one, its editor's value) and the set of the      *)
(* deleted ones; merging two states is the union of both, and the items    *)
(* inserted concurrently at position 0 read in the order of the client     *)
(* ids.                                                                    *)
(***************************************************************************)
SeedTexts == {<<>>, <<"a">>, <<"b">>, <<" ">>}

\* ytext.toString()
RECURSIVE TextFrom(_, _)
TextFrom(t, c) ==
    IF c > 2 THEN <<>>
    ELSE (IF c \in t.items \ t.deleted THEN editorValue[c] ELSE <<>>)
         \o TextFrom(t, c + 1)

TextOf(t) == TextFrom(t, 1)

\* Y.applyUpdate
MergeText(t, update) ==
    [items |-> t.items \cup update.items, deleted |-> t.deleted \cup update.deleted]

\* ytext.insert(0, currentContent): an empty string inserts nothing
InsertOwn(t, c) ==
    IF editorValue[c] = <<>> THEN t ELSE [t EXCEPT !.items = @ \cup {c}]

\* ytext.delete(0, ytext.length)
DeleteAll(t) == [t EXCEPT !.deleted = @ \cup t.items]

\* initializeText(): what it does to the shared text (with content on both
\* sides it goes to the conflict resolver and the editor, not to the text)
InitializeSeed(t, c) ==
    IF Len(TextOf(t)) = 0
    THEN InsertOwn(t, c)
    ELSE IF editorValue[c] = TextOf(t) THEN t
    ELSE IF Trim(TextOf(t)) = <<>> /\ Trim(editorValue[c]) # <<>>
    THEN InsertOwn(DeleteAll(t), c)
    ELSE t

\* the provider of client c completes its initial synchronisation with the
\* relay and emits 'sync': pendingSyncHandler runs initializeText; what it
\* changed goes to the relay
ProviderSynced(c) ==
    /\ c \notin seedSynced
    /\ seedSynced' = seedSynced \cup {c}
    /\ LET synced == MergeText(seedText[c], relayText)
           seeded == InitializeSeed(synced, c)
       IN /\ seedText' = [seedText EXCEPT ![c] = seeded]
          /\ seedWire' = IF seeded # synced
                         THEN seedWire \cup {[to |-> 0, from |-> c, update |-> seeded]}
                         ELSE seedWire
          /\ seededOver' = IF seeded # synced /\ Len(TextOf(synced)) # 0
                           THEN seededOver \cup {c}
                           ELSE seededOver
    /\ UNCHANGED <<editorValue, relayText, nonSeedVars>>

\* the relay receives an update and sends it on to the other synced clients
RelayReceives(m) ==
    /\ m \in seedWire
    /\ m.to = 0
    /\ relayText' = MergeText(relayText, m.update)
    /\ seedWire' = (seedWire \ {m})
                     \cup {[to |-> c, from |-> 0, update |-> m.update] :
                             c \in seedSynced \ {m.from}}
    /\ UNCHANGED <<editorValue, seedText, seedSynced, seededOver, nonSeedVars>>

\* a client receives an update from the relay
SeedReceives(m) ==
    /\ m \in seedWire
    /\ m.to # 0
    /\ seedText' = [seedText EXCEPT ![m.to] = MergeText(@, m.update)]
    /\ seedWire' = seedWire \ {m}
    /\ UNCHANGED <<editorValue, relayText, seedSynced, seededOver, nonSeedVars>>

SeedUpdates ==
    {[to |-> to, from |-> from, update |-> [items |-> i, deleted |-> d]] :
        to \in 0..2, from \in 0..2, i \in SUBSET Clients, d \in SUBSET Clients}

InitSeed ==
    /\ EarlierIdle
    /\ MergeIdle
    /\ RequestsIdle
    /\ ReconcileIdle
    /\ SupervisorIdle
    /\ LimiterIdle
    /\ RegistryIdle
    /\ LastIdle
    /\ editorValue \in [Clients -> SeedTexts]
    /\ seedText = [c \in Clients |-> EmptyText]
    /\ relayText = EmptyText
    /\ seedSynced = {}
    /\ seedWire = {}
    /\ seededOver = {}

NextSeed ==
    \/ \E c \in Clients : ProviderSynced(c)
    \/ \E m \in SeedUpdates : RelayReceives(m)
    \/ \E m \in SeedUpdates : SeedReceives(m)

SpecSeed == InitSeed /\ [][NextSeed]_vars

\* C29: a client inserts its local content only into a document that is
\* empty after its initial synchronisation; and when two clients that both
\* have local content have synchronised and every update has arrived, the
\* document reads as exactly one of the two contents.
C29_FirstWriterWins ==
    /\ seededOver = {}
    /\ (/\ seedSynced = Clients
        /\ seedWire = {}
        /\ \A c \in Clients : editorValue[c] # <<>>)
          => /\ \A c \in Clients : TextOf(seedText[c]) = TextOf(relayText)
             /\ \E c \in Clients :
                  /\ TextOf(relayText) = editorValue[c]
                  /\ relayText.items \ relayText.deleted = {c}

\* the pass that syncLocalWithMetadata started at this step
StartedSync == IF lastDone' # NoPass THEN lastDone' ELSE reconPasses'[Len(reconPasses')]

\* C30: when syncLocalWithMetadata finds extra paths on one side only, a path
\* created or deleted locally within the minute is propagated (pushed to the
\* list, or taken off it) without a conflict, and every other extra path
\* becomes a `structure` conflict that suggests the side which has it.
C30_StructureConflicts ==
    [][syncRuns' # syncRuns =>
         LET localOnly == files \ Range(paths)
             remoteOnly == Range(paths) \ files
             raised == {c.filePath : c \in StartedSync.conflicts}
         IN (localOnly = {} \/ remoteOnly = {}) =>
              /\ \A q \in localOnly :
                   IF WithinMinute(lastSyncTimestamps[Key("create", q)])
                   THEN q \notin raised /\ q \in Range(paths')
                   ELSE [type |-> "structure", filePath |-> q,
                         suggestedResolution |-> "keepLocal"] \in StartedSync.conflicts
              /\ \A q \in remoteOnly :
                   IF WithinMinute(lastSyncTimestamps[Key("delete", q)])
                   THEN q \notin raised /\ q \notin Range(paths')
                   ELSE [type |-> "structure", filePath |-> q,
                         suggestedResolution |-> "keepRemote"] \in StartedSync.conflicts]_vars


(***************************************************************************)
(* The backoff and the violation counter of checkRateLimit over time.      *)
(***************************************************************************)
\* the step is a call of checkRateLimit by this identifier
CallBy(identifier) ==
    /\ limiterCalls' # limiterCalls
    /\ lastCall'.id = identifier

\* C31: after a call was rejected with retryAfter = R, no call by that
\* identifier in that category is allowed before R milliseconds have passed
\* since the rejection.
C31_BackoffGoverns ==
    [][\A identifier \in LimiterIds :
         LET st == streak[MapOf(lastCall'.type)][identifier]
         IN (/\ CallBy(identifier)
             /\ st.type = lastCall'.type
             /\ st.retry > 0
             /\ lastCall'.allowed)
                => limiterNow - st.at >= st.retry]_vars

\* the windows of a record that have expired by nowMs without a violation:
\* its own window if no call was rejected in it, and every window after it
FreeWindows(record, violated, windowMs, nowMs) ==
    IF nowMs < record.resetTime THEN 0
    ELSE (1 + (nowMs - record.resetTime) \div windowMs) - (IF violated THEN 1 ELSE 0)

\* C32: at a call the violation counter has decreased by one for each window
\* that expired without a violation (by min(k, its value) for k such
\* windows), not for a window with a violation, and it is never negative.
C32_ViolationDecay ==
    [][\A identifier \in LimiterIds :
         LET m == MapOf(lastCall'.type)
             before == rateLimitMaps[m][identifier]
             after == rateLimitMaps'[m][identifier]
             k == FreeWindows(before, streak[m][identifier].violated,
                              lastCall'.windowMs, limiterNow)
             decay == IF k < before.violations THEN k ELSE before.violations
         IN CallBy(identifier) =>
              /\ after.violations >= 0
              /\ before.present =>
                   after.violations = before.violations - decay
                                      + (IF lastCall'.allowed THEN 0 ELSE 1)]_vars


(***************************************************************************)
(* Folders: handleFolderCreate and handleFolderDelete of the local vault,  *)
(* the observer of the shared `folders` list (handleRemoteFolderChanges)   *)
(* and reconcileRemoteFolderDeletions. The vault's 'create' and 'delete'   *)
(* events also fire for the folders the plugin itself creates and deletes. *)
(* A remote client changes the list while this client is connected.        *)
(***************************************************************************)
MaxFolderEvents == 4
MaxFolderTicks == 2
FolderGraceMs == 5000
FolderSteps == {1000, 6000}

\* recent && Date.now() - recent <= 5000, the negation of the test of the code
RecentFolderOp(stamp, nowMs) == stamp # 0 /\ nowMs - stamp <= FolderGraceMs

\* foldersArray.delete(idx, 1) with idx = indexOf(path)
FolderListDelete(list, path) ==
    IF path \in Range(list) THEN RemoveAt(list, IndexOf(list, path)) ELSE list

\* reconcileRemoteFolderDeletions; each vault.delete raises 'delete', and
\* handleFolderDelete stamps the folder (it is not on the list, so the list
\* stays)
ReconcileRemoteFolderDeletions(vault, list, stamps, nowMs) ==
    LET doomed == {f \in vault : /\ f \notin Range(list)
                                 /\ ~RecentFolderOp(stamps["deleteFolder"][f], nowMs)}
    IN [vault |-> vault \ doomed,
        stamps |-> [stamps EXCEPT !["deleteFolder"] =
                       [f \in Folders |-> IF f \in doomed THEN nowMs ELSE @[f]]]]

\* handleRemoteFolderChanges, delta.insert of one folder; vault.createFolder
\* raises 'create', and handleFolderCreate stamps the folder (it is on the
\* list already)
RemoteFolderInsert(vault, stamps, path, nowMs) ==
    IF path \notin vault /\ ~RecentFolderOp(stamps["createFolder"][path], nowMs)
    THEN [vault |-> vault \cup {path},
          stamps |-> [stamps EXCEPT !["createFolder"][path] = nowMs]]
    ELSE [vault |-> vault, stamps |-> stamps]

FolderEvent(kind, path) ==
    /\ lastFolderEvent.n < MaxFolderEvents
    /\ lastFolderEvent' = [lastFolderEvent EXCEPT !.kind = kind, !.path = path,
                                                  !.n = @ + 1]

\* the user creates a folder: handleFolderCreate
UserCreatesFolder(path) ==
    /\ path \notin folderVault
    /\ FolderEvent("create", path)
    /\ folderVault' = folderVault \cup {path}
    /\ folderStamps' = [folderStamps EXCEPT !["createFolder"][path] = folderNow]
    /\ foldersArray' = IF folderOnline /\ path \notin Range(foldersArray)
                       THEN Append(foldersArray, path)
                       ELSE foldersArray
    /\ UNCHANGED <<folderNow, folderOnline, nonFolderVars>>

\* the user deletes a folder: handleFolderDelete; when the list held it the
\* observer of the list runs for the client's own change as well
UserDeletesFolder(path) ==
    /\ path \in folderVault
    /\ FolderEvent("delete", path)
    /\ LET stamped == [folderStamps EXCEPT !["deleteFolder"][path] = folderNow]
           vault == folderVault \ {path}
       IN IF folderOnline /\ path \in Range(foldersArray)
          THEN \E r \in {ReconcileRemoteFolderDeletions(
                             vault, FolderListDelete(foldersArray, path),
                             stamped, folderNow)} :
                 /\ foldersArray' = FolderListDelete(foldersArray, path)
                 /\ folderVault' = r.vault
                 /\ folderStamps' = r.stamps
          ELSE /\ foldersArray' = foldersArray
               /\ folderVault' = vault
               /\ folderStamps' = stamped
    /\ UNCHANGED <<folderNow, folderOnline, nonFolderVars>>

\* a remote client creates a folder: its handleFolderCreate pushes the path,
\* this client's observer sees the insert
RemoteAddsFolder(path) ==
    /\ folderOnline
    /\ path \notin Range(foldersArray)
    /\ FolderEvent("remoteAdd", path)
    /\ foldersArray' = Append(foldersArray, path)
    /\ \E r \in {RemoteFolderInsert(folderVault, folderStamps, path, folderNow)} :
         /\ folderVault' = r.vault
         /\ folderStamps' = r.stamps
    /\ UNCHANGED <<folderNow, folderOnline, nonFolderVars>>

\* a remote client deletes a folder: its handleFolderDelete removes the path,
\* this client's observer sees the delete
RemoteRemovesFolder(path) ==
    /\ folderOnline
    /\ path \in Range(foldersArray)
    /\ FolderEvent("remoteRemove", path)
    /\ foldersArray' = FolderListDelete(foldersArray, path)
    /\ \E r \in {ReconcileRemoteFolderDeletions(
                     folderVault, FolderListDelete(foldersArray, path),
                     folderStamps, folderNow)} :
         /\ folderVault' = r.vault
         /\ folderStamps' = r.stamps
    /\ UNCHANGED <<folderNow, folderOnline, nonFolderVars>>

\* the connection comes and goes
FolderStatus(online) ==
    /\ folderOnline # online
    /\ FolderEvent("status", "none")
    /\ folderOnline' = online
    /\ UNCHANGED <<folderVault, foldersArray, folderStamps, folderNow, nonFolderVars>>

FolderClock(dt) ==
    /\ lastFolderEvent.ticks < MaxFolderTicks
    /\ lastFolderEvent' = [lastFolderEvent EXCEPT !.ticks = @ + 1]
    /\ folderNow' = folderNow + dt
    /\ UNCHANGED <<folderVault, foldersArray, folderStamps, folderOnline, nonFolderVars>>

\* the plugin loads in a vault that has folders already; the list is new
InitFolders ==
    /\ EarlierIdle
    /\ MergeIdle
    /\ RequestsIdle
    /\ ReconcileIdle
    /\ SupervisorIdle
    /\ LimiterIdle
    /\ RegistryIdle
    /\ SeedIdle
    /\ PluginIdle
    /\ SharedIdle
    /\ folderVault \in SUBSET Folders
    /\ foldersArray = <<>>
    /\ folderStamps = [k \in FolderKinds |-> [f \in Folders |-> 0]]
    /\ folderNow = 1000
    /\ folderOnline = FALSE
    /\ lastFolderEvent = NoFolderEvent

NextFolders ==
    \/ \E path \in Folders : UserCreatesFolder(path)
    \/ \E path \in Folders : UserDeletesFolder(path)
    \/ \E path \in Folders : RemoteAddsFolder(path)
    \/ \E path \in Folders : RemoteRemovesFolder(path)
    \/ \E online \in BOOLEAN : FolderStatus(online)
    \/ \E dt \in FolderSteps : FolderClock(dt)

SpecFolders == InitFolders /\ [][NextFolders]_vars

\* C33: when a remote client removes a folder from the shared list, this
\* client removes that folder locally and no other: every other local
\* folder, registered in the list or not, recently created or not, stays.
C33_OnlyRemovedFolder ==
    [][(lastFolderEvent'.n # lastFolderEvent.n /\ lastFolderEvent'.kind = "remoteRemove")
          => folderVault' = folderVault \ {lastFolderEvent'.path}]_vars


(***************************************************************************)
(* Shutdown: the objects and timers the plugin holds, and onunload. A      *)
(* field that holds an object is TRUE while the object lives (destroy()    *)
(* is followed by null in the code). `listeners` are the providers that    *)
(* carry the plugin's status and connection-close handlers (destroying a   *)
(* provider drops its observers), `timers` the pending timers the plugin   *)
(* keeps no handle of. firedAfter (history): timers that ran after         *)
(* onunload.                                                               *)
(***************************************************************************)
SyncTimers == {"statusSync", "immediateSync", "awareness"}
PluginFiles == {"a.md", "b.md"}
PluginProviders == {"metadata", "document"}

\* cleanupCurrent()
PluginCleanupCurrent(g) ==
    IF g.isCleaningUp THEN g
    ELSE [g EXCEPT !.provider = FALSE, !.idb = FALSE, !.doc = FALSE,
                   !.currentFile = "none",
                   !.listeners = @ \ {"document"}]

\* cleanupMetadata()
PluginCleanupMetadata(g) ==
    [g EXCEPT !.metadataProvider = FALSE, !.metadataDoc = FALSE,
              !.listeners = @ \ {"metadata"}]

\* onunload()
Onunload(g) ==
    [PluginCleanupMetadata(PluginCleanupCurrent(
        [g EXCEPT !.isCleaningUp = TRUE, !.debounceTimeout = FALSE,
                  !.retryTimeout = FALSE]))
        EXCEPT !.unloaded = TRUE]

\* ensureAwarenessState(), the record on the metadata provider: currentFile
\* is this.currentFile?.path || null
PluginEnsureAwarenessState(g) ==
    IF g.metadataProvider
    THEN [g EXCEPT !.metadataAwareness = g.currentFile]
    ELSE g

\* statusHandler, as far as it arms and clears timers; scheduleImmediateSync
\* publishes the awareness record
PluginStatus(g, status) ==
    IF status = "connected"
    THEN IF g.isOnline
         THEN [g EXCEPT !.retryTimeout = FALSE]
         ELSE PluginEnsureAwarenessState(
                 [g EXCEPT !.isOnline = TRUE,
                           !.retryTimeout = FALSE,
                           !.timers = @ \cup {"statusSync", "immediateSync"}])
    ELSE [g EXCEPT !.isOnline = FALSE,
                   !.retryTimeout = IF g.isOnline /\ ~g.isCleaningUp THEN TRUE ELSE @]

\* the workspace raises 'file-open': handleFileOpenDebounced
PluginFileOpenEvent(file) ==
    /\ ~plugin.unloaded
    /\ ~plugin.debounceTimeout
    /\ plugin' = [plugin EXCEPT !.debounceTimeout = TRUE, !.request = file]
    /\ UNCHANGED nonPluginVars

\* the debounce timer fires: handleFileOpen, and handleFileOpenInternal up
\* to `await this.idb.whenSynced`
PluginDebounceFires ==
    /\ plugin.debounceTimeout
    /\ ~plugin.opening
    /\ plugin' = IF plugin.isCleaningUp \/ plugin.request = plugin.currentFile
                 THEN [plugin EXCEPT !.debounceTimeout = FALSE]
                 ELSE IF plugin.request = "none"
                 THEN [PluginCleanupCurrent(plugin) EXCEPT !.debounceTimeout = FALSE]
                 ELSE [PluginCleanupCurrent(plugin)
                          EXCEPT !.debounceTimeout = FALSE, !.doc = TRUE,
                                 !.idb = TRUE, !.opening = TRUE]
    /\ UNCHANGED nonPluginVars

\* handleFileOpenInternal after the await: the provider and its handlers
PluginOpenCompletes ==
    /\ plugin.opening
    /\ plugin' = [plugin EXCEPT !.opening = FALSE, !.provider = TRUE,
                                !.currentFile = plugin.request,
                                !.listeners = @ \cup {"document"}]
    /\ UNCHANGED nonPluginVars

\* a provider that carries the handlers reports its status
PluginProviderStatus(p, status) ==
    /\ p \in plugin.listeners
    /\ PluginStatus(plugin, status) # plugin
    /\ plugin' = PluginStatus(plugin, status)
    /\ UNCHANGED nonPluginVars

\* a timer without a handle fires
PluginTimerFires(t) ==
    /\ t \in plugin.timers
    /\ plugin' = [(IF t = "awareness" THEN PluginEnsureAwarenessState(plugin) ELSE plugin)
                     EXCEPT !.timers = @ \ {t},
                            !.firedAfter = IF plugin.unloaded THEN @ \cup {t} ELSE @]
    /\ UNCHANGED nonPluginVars

\* the retry timer fires (reconnect itself is left out: it re-creates the
\* metadata connection)
PluginRetryFires ==
    /\ plugin.retryTimeout
    /\ plugin' = [plugin EXCEPT !.retryTimeout = FALSE]
    /\ UNCHANGED nonPluginVars

\* the application disables the plugin
PluginUnloads ==
    /\ ~plugin.unloaded
    /\ plugin' = Onunload(plugin)
    /\ UNCHANGED nonPluginVars

\* after onload: connectMetadata has run, syncLocalWithMetadata has armed
\* the awareness timer
InitPlugin ==
    /\ EarlierIdle
    /\ MergeIdle
    /\ RequestsIdle
    /\ ReconcileIdle
    /\ SupervisorIdle
    /\ LimiterIdle
    /\ RegistryIdle
    /\ SeedIdle
    /\ FolderIdle
    /\ SharedIdle
    /\ plugin = [NoPlugin EXCEPT !.metadataProvider = TRUE, !.metadataDoc = TRUE,
                                 !.listeners = {"metadata"},
                                 !.timers = {"awareness"}]

NextPlugin ==
    \/ \E file \in PluginFiles \cup {"none"} : PluginFileOpenEvent(file)
    \/ PluginDebounceFires
    \/ PluginOpenCompletes
    \/ \E p \in PluginProviders, status \in {"connected", "disconnected"} :
         PluginProviderStatus(p, status)
    \/ \E t \in SyncTimers : PluginTimerFires(t)
    \/ PluginRetryFires
    \/ PluginUnloads

SpecPlugin == InitPlugin /\ [][NextPlugin]_vars

\* C34: once the client has shut down, the document session is released
\* (provider, persistence and doc destroyed, no handler of the plugin left on
\* a provider), no reconnect, debounce or sync timer is pending and none has
\* fired since.
C34_ShutdownReleases ==
    plugin.unloaded =>
        /\ ~plugin.provider /\ ~plugin.idb /\ ~plugin.doc
        /\ plugin.listeners = {}
        /\ ~plugin.debounceTimeout /\ ~plugin.retryTimeout
        /\ plugin.timers = {}
        /\ plugin.firedAfter = {}


C36_GatedMessages ==
    [][\A m \in toServer :
         (/\ toServer' = toServer \ {m}
          /\ connected' = connected
          /\ ~CheckRateLimit(connectionRateLimits[m[1]], serverNow).allowed)
             => /\ serverDoc' = serverDoc
                /\ toClient' = toClient]_vars


\* the passes of processQueue that are suspended at an await
ActivePasses == {i \in PassIds : passes[i].active}

\* C37: at most one replay pass is in progress at a time, and no pass is about
\* to apply an operation that another pass in progress has applied.
C37_SingleFlight ==
    /\ Cardinality(ActivePasses) <= 1
    /\ \A i, j \in ActivePasses :
         (i # j /\ passes[j].idx <= Len(PassArr(World, j)))
            => PassArr(World, j)[passes[j].idx].id \notin Range(passes[i].processed)


(***************************************************************************)
(* The shared `paths` list between two clients. A Y.Array is replicated:   *)
(* each client reads and changes its own replica, and a replica learns the *)
(* other's insertions and deletions when an update arrives. An insertion   *)
(* is an item with an identity of its own; a deletion marks one item. The  *)
(* items of one path are taken in the order of their ids.                  *)
(***************************************************************************)
MaxItems == 3

\* arr.toArray(), as the items this replica shows
LiveItems(h, c) == {it \in h.items[c] : it.id \notin h.gone[c]}

LivePaths(h, c) == {it.path : it \in LiveItems(h, c)}

\* arr.push([path]) on the replica of c
SharedPush(h, c, path) ==
    [h EXCEPT !.items[c] = @ \cup {[id |-> h.n + 1, path |-> path]},
              !.n = @ + 1]

\* if (!arr.toArray().includes(path)) arr.push([path])
PushIfAbsent(h, c, path) ==
    IF path \in LivePaths(h, c) THEN h ELSE SharedPush(h, c, path)

\* idx = arr.toArray().indexOf(path); if (idx >= 0) arr.delete(idx, 1)
DeleteFirstIndex(h, c, path) ==
    LET mine == {it \in LiveItems(h, c) : it.path = path}
    IN IF mine = {} THEN h
       ELSE LET first == CHOOSE it \in mine : \A x \in mine : it.id <= x.id
            IN [h EXCEPT !.gone[c] = @ \cup {first.id}]

RECURSIVE PushAllAbsent(_, _, _)
PushAllAbsent(h, c, todo) ==
    IF todo = {} THEN h
    ELSE LET path == CHOOSE x \in todo : TRUE
         IN PushAllAbsent(PushIfAbsent(h, c, path), c, todo \ {path})

\* the user of client c creates a file: handleFileCreate, online
SharedCreate(c, path) ==
    /\ path \notin shared.files[c]
    /\ shared.n < MaxItems
    /\ shared' = PushIfAbsent([shared EXCEPT !.files[c] = @ \cup {path}], c, path)
    /\ UNCHANGED nonSharedVars

\* the user of client c deletes a file: handleFileDelete, online
SharedDelete(c, path) ==
    /\ path \in shared.files[c]
    /\ shared.lastDelete.n < MaxItems
    /\ shared' = [DeleteFirstIndex([shared EXCEPT !.files[c] = @ \ {path}], c, path)
                    EXCEPT !.lastDelete = [client |-> c, path |-> path, n |-> @.n + 1]]
    /\ UNCHANGED nonSharedVars

\* mergeVaultContents and performPeriodicSyncCheck: the local files the
\* replica of c does not list are pushed
SharedPushMissing(c) ==
    /\ shared.files[c] \ LivePaths(shared, c) # {}
    /\ shared.n + Cardinality(shared.files[c] \ LivePaths(shared, c)) <= MaxItems
    /\ shared' = PushAllAbsent(shared, c, shared.files[c] \ LivePaths(shared, c))
    /\ UNCHANGED nonSharedVars

\* an update of client d arrives at client c: the replica merges it, and
\* handleRemotePathChanges creates the files of the inserted paths
SharedReceives(c, d) ==
    /\ c # d
    /\ \/ ~(shared.items[d] \subseteq shared.items[c])
       \/ ~(shared.gone[d] \subseteq shared.gone[c])
    /\ LET merged == [shared EXCEPT !.items[c] = @ \cup shared.items[d],
                                    !.gone[c] = @ \cup shared.gone[d]]
           inserted == {it.path : it \in LiveItems(merged, c) \ shared.items[c]}
       IN shared' = [merged EXCEPT !.files[c] = @ \cup inserted]
    /\ UNCHANGED nonSharedVars

\* two clients with their vaults (possibly copies of one vault) and a new list
InitShared ==
    /\ EarlierIdle
    /\ MergeIdle
    /\ RequestsIdle
    /\ ReconcileIdle
    /\ SupervisorIdle
    /\ LimiterIdle
    /\ RegistryIdle
    /\ SeedIdle
    /\ FolderIdle
    /\ PluginIdle
    /\ \E f \in [Clients -> SUBSET Paths] : shared = [NoShared EXCEPT !.files = f]

NextShared ==
    \/ \E c \in Clients, path \in Paths : SharedCreate(c, path)
    \/ \E c \in Clients, path \in Paths : SharedDelete(c, path)
    \/ \E c \in Clients : SharedPushMissing(c)
    \/ \E c, d \in Clients : SharedReceives(c, d)

SpecShared == InitShared /\ [][NextShared]_vars

\* C38: no replica of the shared list shows a path twice, and after a client
\* has deleted a file its replica of the list no longer shows the path.
C38_NoDuplicatePaths ==
    /\ \A c \in Clients : \A x, y \in LiveItems(shared, c) : x.path = y.path => x = y
    /\ \A c \in Clients :
         (shared.lastDelete.client = c /\ shared.lastDelete.path \notin shared.files[c])
            => shared.lastDelete.path \notin LivePaths(shared, c)

\* hasAccess(vaultId, userId): the members of a vault are the ones
\* registerVault put there, the owner alone, since addMember has no caller
HasAccess(g, vaultId, userId) ==
    LET validVaultId == ValidateVaultId(vaultId)
        validUserId == ValidateUserId(userId)
    IN IF validVaultId = NullParam \/ validUserId = NullParam
       THEN FALSE
       ELSE \E v \in g.vaults : v[1] = validVaultId /\ v[2] = validUserId

\* C40: the user of every registered session is a member of the session's
\* vault: hasAccess(s.vaultId, s.userId) is true for every session s, also
\* for a second user who connects to a vault that is registered already.
C40_SessionUsersAreMembers ==
    \A c \in ConnIds :
        registrySessions[c].present
            => HasAccess(Registry, registrySessions[c].vaultId, registrySessions[c].userId)

\* registered sessions from an address
SessionsFrom(ip) ==
    established[ip]
    + Cardinality({c \in ConnIds : /\ registrySessions[c].present
                                   /\ registrySessions[c].ipAddress = ip})

\* C39: for every address the connection counter is the number of the
\* sessions registered from that address, is not negative and is at most 50,
\* whatever the order of accepted and rejected connections, errors, closes
\* (also a close after an error of the same connection) and sweeps.
C39_CounterMatchesSessions ==
    \A ip \in Ips :
        /\ connectionCount[ip] = SessionsFrom(ip)
        /\ connectionCount[ip] >= 0
        /\ connectionCount[ip] <= MaxConnectionsPerIp

\* one connection's error is handled and its close is still to come, the
\* address is at the limit again and a further connection was turned away
C39_Witness ==
    \E ip \in Ips :
        /\ established[ip] > 0
        /\ connState["c1"] = "errored"
        /\ connState["c2"] = "open"
        /\ registrySessions["c2"].ipAddress = ip
        /\ connectionCount[ip] = MaxConnectionsPerIp
        /\ lastAttempt.outcome = "refused"
        /\ lastAttempt.sent.ip = ip

====
